---- MODULE Spec2Model ----
(***************************************************************************)
(* Lead generation pipeline of leads_gen/email_scraping.py:                *)
(* EnhancedAPIKeyRotator, LeadGenerator (deduplication, batch windows,     *)
(* master CSV, backup snapshots).                                          *)
(*                                                                         *)
(* Strings are sequences of one-character strings.  A line of CSV text is  *)
(* a record [fields, rest]: fields are the leading comma-separated parts   *)
(* (at most three are ever inspected by the code) and rest is the number   *)
(* of further, non-blank characters of the line (the remaining columns     *)
(* with their commas).  A text is a sequence of lines (joined by "\n").    *)
(***************************************************************************)
EXTENDS Integers, Sequences, FiniteSets, TLC

VARIABLES
    num_batches,        \* Config.num_batches
    concurrency_level,  \* Config.concurrency_level
    backup_interval,    \* Config.backup_interval
    api_keys,           \* EnhancedAPIKeyRotator.api_keys, a list of distinct credentials
    current_key_index,  \* EnhancedAPIKeyRotator.current_key_index (0-based)
    key_usage_count,    \* usage count per credential index
    key_error_count,    \* error count per credential index
    generated_emails,   \* LeadGenerator.generated_emails
    generated_names,    \* LeadGenerator.generated_names
    generated_domains,  \* LeadGenerator.generated_domains
    stats,              \* LeadGenerator.stats
    backup_data,        \* LeadGenerator.backup_data
    output_file,        \* lines of the master CSV on disk
    backup_file,        \* entries of the backup JSON on disk (last snapshot)
    backup_writes,      \* number of save_backup calls so far
    pc,                 \* position of process_batches
    window_start,       \* loop variable i of process_batches
    next_task,          \* next batch of the window whose task starts
    next_result,        \* next batch of the window whose result is handled
    status,             \* per batch: pending, requested, succeeded, failed
    requests,           \* per batch: number of remote calls issued for it
    issued_key,         \* per batch: index of the credential its call was issued under
    results,            \* per batch: return value of generate_batch
    reported,           \* per batch: SUCCESS / FAILURE line logged for it
    summary,            \* what _log_final_stats logged
    environ,            \* os.environ after load_dotenv: the configured credentials
    stdout,             \* what the process printed at startup
    exit_code,          \* << >> while the process runs, else << code of sys.exit >>
    in_url,             \* argument of a call of _extract_domain
    out_domain,         \* what the call returned
    in_row,             \* argument of a call of calculate_adoption_level
    out_level,          \* what the call returned
    csv_rows,           \* the rows of the master CSV as the segmenter finds it
    df,                 \* the data frame of segment_leads
    segment_files,      \* the files the segmenter wrote: pairs << Config field, rows >>
    seg_pc,             \* position of segment_leads
    seg_log             \* the exception segment_leads caught and logged, if any

vars == << num_batches, concurrency_level, backup_interval, api_keys,
           current_key_index, key_usage_count, key_error_count,
           generated_emails, generated_names, generated_domains, stats,
           backup_data, output_file, backup_file, backup_writes, pc,
           window_start, next_task, next_result, status, requests, issued_key, results,
           reported, summary, environ, stdout, exit_code, in_url, out_domain,
           in_row, out_level, csv_rows, df, segment_files, seg_pc,
           seg_log >>

startup_vars == << environ, stdout, exit_code >>

pure_vars == << in_url, out_domain, in_row, out_level >>

segmenter_vars == << csv_rows, df, segment_files, seg_pc, seg_log >>

(***************************************************************************)
(* Bounds of the model and constants of the program.                       *)
(***************************************************************************)
MaxBatches == 3

MaxConcurrency == 2

MaxBackupInterval == 2

MaxKeys == 3

MaxPieces == 3

MaxRows == 2

MinDataLen == 50

max_requests_per_key == 150

max_errors_per_key == 5

(***************************************************************************)
(* Strings.                                                                *)
(***************************************************************************)
Min(a, b) == IF a < b THEN a ELSE b

UpperChars == << "A", "B", "C", "D", "E", "F", "G", "H", "I", "J", "K", "L", "M",
                 "N", "O", "P", "Q", "R", "S", "T", "U", "V", "W", "X", "Y", "Z" >>

LowerChars == << "a", "b", "c", "d", "e", "f", "g", "h", "i", "j", "k", "l", "m",
                 "n", "o", "p", "q", "r", "s", "t", "u", "v", "w", "x", "y", "z" >>

ToLower ==
    [c \in {UpperChars[i] : i \in 1..26} |->
        LowerChars[CHOOSE i \in 1..26 : UpperChars[i] = c]]

LowerChar(c) == IF c \in DOMAIN ToLower THEN ToLower[c] ELSE c

\* str.lower()
Lower(s) == [i \in 1..Len(s) |-> LowerChar(s[i])]

IsSpace(c) == c = " "

\* number of leading / trailing whitespace characters of s
LeadingSpaces(s) ==
    IF \A i \in 1..Len(s) : IsSpace(s[i]) THEN Len(s)
    ELSE (CHOOSE i \in 1..Len(s) :
              ~IsSpace(s[i]) /\ \A j \in 1..(i - 1) : IsSpace(s[j])) - 1

TrailingSpaces(s) ==
    IF \A i \in 1..Len(s) : IsSpace(s[i]) THEN Len(s)
    ELSE Len(s) - (CHOOSE i \in 1..Len(s) :
              ~IsSpace(s[i]) /\ \A j \in (i + 1)..Len(s) : IsSpace(s[j]))

\* str.strip()
Strip(s) ==
    IF \A i \in 1..Len(s) : IsSpace(s[i]) THEN << >>
    ELSE SubSeq(s, LeadingSpaces(s) + 1, Len(s) - TrailingSpaces(s))

\* str.startswith(p)
StartsWith(s, p) == Len(s) >= Len(p) /\ SubSeq(s, 1, Len(p)) = p

\* s.split(c)[0]
BeforeFirst(s, c) ==
    IF \E i \in 1..Len(s) : s[i] = c
    THEN SubSeq(s, 1, (CHOOSE i \in 1..Len(s) :
                           s[i] = c /\ \A j \in 1..(i - 1) : s[j] # c) - 1)
    ELSE s

DropPrefix(s, p) == IF StartsWith(s, p) THEN SubSeq(s, Len(p) + 1, Len(s)) ELSE s

\* re.sub(r'^https?://', '', s)
StripProtocol(s) ==
    IF StartsWith(s, << "h", "t", "t", "p", ":", "/", "/" >>)
    THEN DropPrefix(s, << "h", "t", "t", "p", ":", "/", "/" >>)
    ELSE DropPrefix(s, << "h", "t", "t", "p", "s", ":", "/", "/" >>)

\* re.sub(r'^www\.', '', s)
StripWww(s) == DropPrefix(s, << "w", "w", "w", "." >>)

\* LeadGenerator._extract_domain
extract_domain(url) ==
    BeforeFirst(BeforeFirst(StripWww(StripProtocol(Lower(url))), "/"), "?")

(***************************************************************************)
(* Lines and texts.                                                        *)
(***************************************************************************)
\* len(line)
LineLen(line) ==
    LET f == line.fields
        RECURSIVE Sum(_)
        Sum(k) == IF k = 0 THEN 0 ELSE Len(f[k]) + Sum(k - 1)
    IN  Sum(Len(f)) + (Len(f) - 1) + line.rest

\* not line.strip()
IsBlankLine(line) ==
    /\ Len(line.fields) = 1
    /\ line.rest = 0
    /\ Strip(line.fields[1]) = << >>

\* line.startswith('name,')
IsHeaderLine(line) ==
    /\ Len(line.fields) >= 2
    /\ line.fields[1] = << "n", "a", "m", "e" >>

LStripLine(line) ==
    [line EXCEPT !.fields[1] =
        SubSeq(@, LeadingSpaces(@) + 1, Len(@))]

RStripLine(line) ==
    IF line.rest > 0 THEN line
    ELSE [line EXCEPT !.fields[Len(line.fields)] =
              SubSeq(@, 1, Len(@) - TrailingSpaces(@))]

\* text.strip() of a text given as its lines: blank lines at both ends go,
\* then the whitespace before the first and after the last character
RECURSIVE DropLeadingBlank(_)
DropLeadingBlank(text) ==
    IF text = << >> THEN << >>
    ELSE IF IsBlankLine(text[1]) THEN DropLeadingBlank(Tail(text))
    ELSE text

RECURSIVE DropTrailingBlank(_)
DropTrailingBlank(text) ==
    IF text = << >> THEN << >>
    ELSE IF IsBlankLine(text[Len(text)])
         THEN DropTrailingBlank(SubSeq(text, 1, Len(text) - 1))
    ELSE text

StripText(text) ==
    LET t == DropTrailingBlank(DropLeadingBlank(text))
    IN  IF t = << >> THEN << >>
        ELSE LET u == [t EXCEPT ![1] = LStripLine(@)]
             IN  [u EXCEPT ![Len(u)] = RStripLine(@)]

\* len('\n'.join(text))
TextLen(text) ==
    LET RECURSIVE Sum(_)
        Sum(k) == IF k = 0 THEN 0 ELSE LineLen(text[k]) + Sum(k - 1)
    IN  IF text = << >> THEN 0 ELSE Sum(Len(text)) + (Len(text) - 1)

\* len(text.strip())
StripLen(text) == TextLen(StripText(text))

\* Sufficient without the length test
Sufficient_NoLength(data) == data # << >>

\* data and len(data.strip()) > 50
Sufficient(data) == data # << >> /\ StripLen(data) > MinDataLen

(***************************************************************************)
(* Credentials.  A credential is a string; the format test of              *)
(* _load_api_keys accepts a string longer than 20 characters that starts   *)
(* with 'AIzaSy'.                                                          *)
(***************************************************************************)
KeyPrefix == << "A", "I", "z", "a", "S", "y" >>

KeyChars == << "a", "b", "c", "d", "e" >>

\* the i-th well-formed credential: the prefix and 15 more characters
Key(i) == KeyPrefix \o [j \in 1..15 |-> KeyChars[i]]

\* an environment variable that is not set
Unset == << "unset" >>

\* "your_gemini_api_key_here"
PlaceholderKey ==
    << "y", "o", "u", "r", "_", "g", "e", "m", "i", "n", "i", "_",
       "a", "p", "i", "_", "k", "e", "y", "_", "h", "e", "r", "e" >>

\* s.split(c)
RECURSIVE Split(_, _)
Split(s, c) ==
    IF \E i \in 1..Len(s) : s[i] = c
    THEN << BeforeFirst(s, c) >>
             \o Split(SubSeq(s, Len(BeforeFirst(s, c)) + 2, Len(s)), c)
    ELSE << s >>

\* SelectSeq for a test given as a set
RECURSIVE Filter(_, _)
Filter(q, S) ==
    IF q = << >> THEN << >>
    ELSE (IF Head(q) \in S THEN << Head(q) >> ELSE << >>) \o Filter(Tail(q), S)

\* os.getenv(f"GEMINI_API_KEY_{i}")
GetNumbered(env, i) ==
    IF i <= Len(env.numbered) THEN env.numbered[i] ELSE Unset

\* the keys list of _load_api_keys before validation
CollectedKeys(env) ==
    LET single == env.GEMINI_API_KEY
        multi == env.GEMINI_API_KEYS
        fromSingle ==
            IF single # Unset /\ single # << >> /\ single # PlaceholderKey
            THEN << Strip(single) >> ELSE << >>
        parts == IF multi # Unset /\ multi # << >> THEN Split(multi, ",") ELSE << >>
        fromMulti ==
            LET stripped == [k \in 1..Len(parts) |-> Strip(parts[k])]
            IN  Filter(stripped, {stripped[k] : k \in 1..Len(parts)}
                                     \ {<< >>, PlaceholderKey})
        RECURSIVE FromNumbered(_)
        FromNumbered(i) ==
            IF i > 10 THEN << >>
            ELSE LET key == GetNumbered(env, i)
                 IN  IF key = Unset \/ key = << >> \/ key = PlaceholderKey
                     THEN FromNumbered(i + 1)
                     ELSE << Strip(key) >> \o FromNumbered(i + 1)
    IN  fromSingle \o fromMulti \o FromNumbered(1)

\* len(key) > 20 and key.startswith('AIzaSy')
ValidKeyFormat(key) == Len(key) > 20 /\ StartsWith(key, KeyPrefix)

\* load_api_keys without the format test
load_api_keys_unchecked(env) ==
    {CollectedKeys(env)[k] : k \in 1..Len(CollectedKeys(env))}

\* _load_api_keys up to set(valid_keys)
load_api_keys(env) ==
    {key \in {CollectedKeys(env)[k] : k \in 1..Len(CollectedKeys(env))} :
        ValidKeyFormat(key)}

\* list(S): the elements of S in one of their orders
ListOf(S) ==
    {q \in [1..Cardinality(S) -> S] : \A i, j \in 1..Cardinality(S) :
                                          q[i] = q[j] => i = j}

(***************************************************************************)
(* EnhancedAPIKeyRotator.  Credentials are distinct (list(set(...))), so   *)
(* the per-credential dictionaries are indexed by position in api_keys.    *)
(* A rotator state is a record [idx, use, err].                            *)
(***************************************************************************)
KeyIndices == 0..(Len(api_keys) - 1)

Rotator == [idx |-> current_key_index, use |-> key_usage_count, err |-> key_error_count]

\* ScanHealthy taking the next credential without looking at its errors
ScanHealthy_AnyNext(idx, err, steps) == (idx + 1) % Len(api_keys)

\* the for loop of rotate_key: step forward circularly, stop at the first
\* credential whose error count is below the cap
RECURSIVE ScanHealthy(_, _, _)
ScanHealthy(idx, err, steps) ==
    IF steps = 0 THEN idx
    ELSE LET cand == (idx + 1) % Len(api_keys)
         IN  IF err[cand] < max_errors_per_key THEN cand
             ELSE ScanHealthy(cand, err, steps - 1)

\* rotate_key moving on at every call
rotate_key_always(r, draw) ==
    IF Len(api_keys) = 1 THEN r
    ELSE [r EXCEPT !.idx = ScanHealthy(r.idx, r.err, Len(api_keys))]

\* rotate_key; draw is the outcome of random.random() < 0.05
rotate_key(r, draw) ==
    IF Len(api_keys) = 1 THEN r
    ELSE IF \/ r.use[r.idx] >= max_requests_per_key
            \/ r.err[r.idx] >= max_errors_per_key
            \/ draw
         THEN [r EXCEPT !.idx = ScanHealthy(r.idx, r.err, Len(api_keys))]
         ELSE r

\* mark_key_error rotating only above the cap
mark_key_error_above(r, draw) ==
    LET r1 == [r EXCEPT !.err[r.idx] = @ + 1]
    IN  IF r1.err[r1.idx] > max_errors_per_key THEN rotate_key(r1, draw) ELSE r1

\* mark_key_error() for the current credential
mark_key_error(r, draw) ==
    LET r1 == [r EXCEPT !.err[r.idx] = @ + 1]
    IN  IF r1.err[r1.idx] >= max_errors_per_key THEN rotate_key(r1, draw) ELSE r1

\* configure_genai; ok is whether genai.configure returned without raising
configure_genai(r, ok, draw) == IF ok THEN r ELSE mark_key_error(r, draw)

\* increment_usage
increment_usage(r) == [r EXCEPT !.use[r.idx] = @ + 1]

SetRotator(r) ==
    /\ current_key_index' = r.idx
    /\ key_usage_count' = r.use
    /\ key_error_count' = r.err

(***************************************************************************)
(* LeadGenerator._parse_and_filter_batch.  The accumulator holds the three *)
(* identity-key sets, the kept lines and the number of duplicates found.   *)
(***************************************************************************)
NameKey(line) == Strip(Lower(Strip(line.fields[1])))

EmailKey(line) == Strip(Lower(Strip(line.fields[2])))

DomainKey(line) == extract_domain(Strip(line.fields[3]))

\* IsDuplicate without the domain check
IsDuplicate_NoDomain(acc, line) ==
    \/ EmailKey(line) \in acc.emails
    \/ NameKey(line) \in acc.names

\* IsDuplicate without the name check
IsDuplicate_NoName(acc, line) ==
    \/ EmailKey(line) \in acc.emails
    \/ DomainKey(line) \in acc.domains

IsDuplicate(acc, line) ==
    \/ EmailKey(line) \in acc.emails
    \/ NameKey(line) \in acc.names
    \/ DomainKey(line) \in acc.domains

Register(acc, line) ==
    [acc EXCEPT !.emails = @ \cup {EmailKey(line)},
                !.names = @ \cup {NameKey(line)},
                !.domains = IF DomainKey(line) # << >>
                            THEN @ \cup {DomainKey(line)} ELSE @,
                !.kept = Append(@, line)]

\* FilterLine dropping a duplicate without counting it
FilterLine_Uncounted(acc, line) ==
    IF IsBlankLine(line) \/ IsHeaderLine(line) THEN acc
    ELSE IF Len(line.fields) < 3 THEN acc
    ELSE IF IsDuplicate(acc, line) THEN acc
    ELSE Register(acc, line)

\* FilterLine counting a line of fewer than three fields as a duplicate
FilterLine_CountMalformed(acc, line) ==
    IF IsBlankLine(line) \/ IsHeaderLine(line) THEN acc
    ELSE IF Len(line.fields) < 3 THEN [acc EXCEPT !.dups = @ + 1]
    ELSE IF IsDuplicate(acc, line) THEN [acc EXCEPT !.dups = @ + 1]
    ELSE Register(acc, line)

\* one iteration of the for loop over the lines
FilterLine(acc, line) ==
    IF IsBlankLine(line) \/ IsHeaderLine(line) THEN acc
    ELSE IF Len(line.fields) < 3 THEN acc
    ELSE IF IsDuplicate(acc, line) THEN [acc EXCEPT !.dups = @ + 1]
    ELSE Register(acc, line)

RECURSIVE FilterFrom(_, _, _)
FilterFrom(lines, k, acc) ==
    IF k > Len(lines) THEN acc
    ELSE FilterFrom(lines, k + 1, FilterLine(acc, lines[k]))

\* _parse_and_filter_batch(batch_data) in the current state
parse_and_filter_batch(batch_data) ==
    LET acc0 == [emails |-> generated_emails, names |-> generated_names,
                 domains |-> generated_domains, kept |-> << >>, dups |-> 0]
    IN  IF batch_data = << >> THEN acc0
        ELSE FilterFrom(StripText(batch_data), 1, acc0)

(***************************************************************************)
(* Texts the remote model may return.                                      *)
(***************************************************************************)
\* a lead of full width
LeadA ==
    [fields |-> << << "a" >>, << "a", "@", "x" >>,
                   << "W", "w", "w", ".", "s", ".", "c", "/", "p" >> >>,
     rest |-> 50]

\* same name as LeadA up to case and blanks, no website
LeadB ==
    [fields |-> << << " ", "A" >>, << "b", "@", "x" >>, << >> >>, rest |-> 50]

\* same email as LeadA up to case and blanks, no website
LeadC ==
    [fields |-> << << "c" >>, << "A", "@", "X", " " >>, << >> >>, rest |-> 50]

\* same domain as LeadA
LeadD ==
    [fields |-> << << "d" >>, << "d", "@", "x" >>,
                   << "h", "t", "t", "p", ":", "/", "/", "s", ".", "c", "?", "q" >> >>,
     rest |-> 50]

\* a lead whose line is shorter than the threshold
LeadE ==
    [fields |-> << << "e" >>, << "e", "@", "x" >>, << "t", ".", "c" >> >>, rest |-> 0]

\* a lead that shares no key with the others
LeadF ==
    [fields |-> << << "f" >>, << "f", "@", "y" >>, << "u", ".", "c" >> >>, rest |-> 50]

\* the CSV header (25 columns, 477 characters)
HeaderLine ==
    [fields |-> << << "n", "a", "m", "e" >>, << "e", "m", "a", "i", "l" >>,
                   << "w", "e", "b", "s", "i", "t", "e" >> >>,
     rest |-> 459]

BlankLine == [fields |-> << << " " >> >>, rest |-> 0]

\* a line with fewer than three fields
ShortLine == [fields |-> << << "g" >>, << "g", "@", "x" >> >>, rest |-> 0]

Responses ==
    { << >>,
      << LeadA, LeadD >>,
      << BlankLine, HeaderLine, LeadB, ShortLine, LeadC >>,
      << LeadD, LeadE >>,
      << LeadF >> }

(***************************************************************************)
(* LeadGenerator: generate_batch, save_results, save_backup,               *)
(* process_batches.                                                        *)
(***************************************************************************)
Batches == 1..num_batches

NoResult == [kind |-> "unset", data |-> << >>]

NoneResult == [kind |-> "none", data |-> << >>]

TextResult(data) == [kind |-> "text", data |-> data]

\* BatchNums with the upper end of the range one too far
BatchNums_Wide ==
    window_start..Min(window_start + concurrency_level, num_batches)

\* batch_nums of the current window
BatchNums == window_start..(Min(window_start + concurrency_level, num_batches + 1) - 1)

Resolved(n) == status[n] \in {"succeeded", "failed"}

InFlight == {n \in Batches : status[n] = "requested"}

\* datetime.now().isoformat() of the k-th saved entry
IsoFormat(k) == << "T", k >>

\* .env.local with GEMINI_API_KEY set to one well-formed credential
SingleKeyEnv ==
    [GEMINI_API_KEY |-> Key(1), GEMINI_API_KEYS |-> Unset, numbered |-> << >>]

\* the process got past the construction of the rotator
Running == stdout = << >> /\ exit_code = << >>

\* no call of _extract_domain or calculate_adoption_level on its own
NoCall ==
    /\ in_url = << >>
    /\ out_domain = Unset
    /\ in_row = << >>
    /\ out_level = "unset"

\* segment_leads has not been called
NotSegmenting ==
    /\ csv_rows = << >>
    /\ df = << >>
    /\ segment_files = {}
    /\ seg_pc = "idle"
    /\ seg_log = << >>

\* the fields of LeadGenerator.__init__ after the rotator: empty key sets,
\* zero statistics, nothing written, no batch started
GeneratorFields ==
    /\ generated_emails = {}
    /\ generated_names = {}
    /\ generated_domains = {}
    /\ stats = [completed_batches |-> 0, total_leads_generated |-> 0,
                failed_batches |-> 0, duplicates_prevented |-> 0]
    /\ backup_data = << >>
    /\ output_file = << >>
    /\ backup_file = << >>
    /\ backup_writes = 0
    /\ window_start = 1
    /\ next_task = 1
    /\ next_result = 1
    /\ status = [n \in Batches |-> "pending"]
    /\ requests = [n \in Batches |-> 0]
    /\ issued_key = [n \in Batches |-> -1]
    /\ results = [n \in Batches |-> NoResult]
    /\ reported = [n \in Batches |-> "none"]
    /\ summary = << >>

\* LeadGenerator.__init__ returned; process_batches comes next
GeneratorConstructed == GeneratorFields /\ pc = "open"

\* EnhancedAPIKeyRotator.__init__ and LeadGenerator.__init__, given the
\* configuration and the credentials
Constructed ==
    /\ current_key_index = 0
    /\ key_usage_count = [k \in KeyIndices |-> 0]
    /\ key_error_count = [k \in KeyIndices |-> 0]
    /\ GeneratorConstructed

\* a single credential (GEMINI_API_KEY), any small configuration
Init ==
    /\ num_batches \in 1..MaxBatches
    /\ concurrency_level \in 1..MaxConcurrency
    /\ backup_interval \in 1..MaxBackupInterval
    /\ environ = SingleKeyEnv
    /\ api_keys = << Key(1) >>
    /\ Running
    /\ Constructed
    /\ NoCall
    /\ NotSegmenting

config_vars == << num_batches, concurrency_level, backup_interval, api_keys >>

rotator_vars == << current_key_index, key_usage_count, key_error_count >>

key_sets == << generated_emails, generated_names, generated_domains >>

\* process_batches: open the master file for writing and write the header
process_batches_open ==
    /\ pc = "open"
    /\ output_file' = << HeaderLine >>
    /\ pc' = "window"
    /\ UNCHANGED << startup_vars, pure_vars, segmenter_vars >>
    /\ UNCHANGED << config_vars, rotator_vars, key_sets, stats, backup_data,
                    backup_file, backup_writes, window_start, next_task,
                    next_result, status, requests, issued_key, results, reported, summary >>

\* generate_batch(n) up to the await of the remote call: the tasks of a
\* window start in the order gather received them; ok is whether
\* genai.configure returned without raising
generate_batch_start(n, ok) ==
    /\ pc = "window"
    /\ n = next_task
    /\ n \in BatchNums
    /\ \E draw \in BOOLEAN, draw2 \in BOOLEAN :
           SetRotator(configure_genai(rotate_key(Rotator, draw), ok, draw2))
    /\ status' = [status EXCEPT ![n] = "requested"]
    /\ requests' = [requests EXCEPT ![n] = @ + 1]
    /\ issued_key' = [issued_key EXCEPT ![n] = current_key_index']
    /\ next_task' = n + 1
    /\ UNCHANGED << startup_vars, pure_vars, segmenter_vars >>
    /\ UNCHANGED << config_vars, key_sets, stats, backup_data, output_file,
                    backup_file, backup_writes, pc, window_start, next_result,
                    results, reported, summary >>

\* generate_batch(n) after the remote call returned text: lines 392-396
generate_batch_return(n, text) ==
    /\ status[n] = "requested"
    /\ SetRotator(increment_usage(Rotator))
    /\ LET acc == parse_and_filter_batch(StripText(text))
       IN  /\ generated_emails' = acc.emails
           /\ generated_names' = acc.names
           /\ generated_domains' = acc.domains
           /\ stats' = [stats EXCEPT !.duplicates_prevented = @ + acc.dups]
           /\ results' = [results EXCEPT ![n] = TextResult(acc.kept)]
    /\ status' = [status EXCEPT ![n] = "succeeded"]
    /\ UNCHANGED << startup_vars, pure_vars, segmenter_vars >>
    /\ UNCHANGED << config_vars, backup_data, output_file, backup_file,
                    backup_writes, pc, window_start, next_task, next_result,
                    requests, issued_key, reported, summary >>

\* generate_batch_raise without the increment of failed_batches
generate_batch_raise_uncounted(n, counted) ==
    /\ status[n] = "requested"
    /\ SetRotator(IF counted THEN increment_usage(Rotator) ELSE Rotator)
    /\ results' = [results EXCEPT ![n] = NoneResult]
    /\ status' = [status EXCEPT ![n] = "failed"]
    /\ UNCHANGED << startup_vars, pure_vars, segmenter_vars >>
    /\ UNCHANGED << config_vars, key_sets, stats, backup_data, output_file,
                    backup_file, backup_writes, pc, window_start, next_task,
                    next_result, requests, issued_key, reported, summary >>

\* generate_batch_raise forgetting the registered names
generate_batch_raise_rollback(n, counted) ==
    /\ status[n] = "requested"
    /\ SetRotator(IF counted THEN increment_usage(Rotator) ELSE Rotator)
    /\ stats' = [stats EXCEPT !.failed_batches = @ + 1]
    /\ results' = [results EXCEPT ![n] = NoneResult]
    /\ status' = [status EXCEPT ![n] = "failed"]
    /\ generated_names' = {}
    /\ UNCHANGED << startup_vars, pure_vars, segmenter_vars >>
    /\ UNCHANGED << config_vars, generated_emails, generated_domains,
                    backup_data, output_file, backup_file,
                    backup_writes, pc, window_start, next_task, next_result,
                    requests, issued_key, reported, summary >>

\* generate_batch(n) when the remote call raises (counted is FALSE) or when
\* reading response.text raises after increment_usage (counted is TRUE)
generate_batch_raise(n, counted) ==
    /\ status[n] = "requested"
    /\ SetRotator(IF counted THEN increment_usage(Rotator) ELSE Rotator)
    /\ stats' = [stats EXCEPT !.failed_batches = @ + 1]
    /\ results' = [results EXCEPT ![n] = NoneResult]
    /\ status' = [status EXCEPT ![n] = "failed"]
    /\ UNCHANGED << startup_vars, pure_vars, segmenter_vars >>
    /\ UNCHANGED << config_vars, key_sets, backup_data, output_file, backup_file,
                    backup_writes, pc, window_start, next_task, next_result,
                    requests, issued_key, reported, summary >>

\* save_results writing the file from its start instead of appending
save_results_rewrite(data) ==
    IF Sufficient(data)
    THEN /\ output_file' = << HeaderLine >> \o data
         /\ backup_data' = Append(backup_data,
                [timestamp |-> IsoFormat(Len(backup_data) + 1), data |-> data])
    ELSE UNCHANGED << output_file, backup_data >>

\* save_results putting the newest text first
save_results_newest_first(data) ==
    IF Sufficient(data)
    THEN /\ output_file' = << HeaderLine >> \o data \o Tail(output_file)
         /\ backup_data' = << [timestamp |-> IsoFormat(Len(backup_data) + 1),
                               data |-> data] >> \o backup_data
    ELSE UNCHANGED << output_file, backup_data >>

\* save_results(data, f)
save_results(data) ==
    IF Sufficient(data)
    THEN /\ output_file' = output_file \o data
         /\ backup_data' = Append(backup_data,
                [timestamp |-> IsoFormat(Len(backup_data) + 1), data |-> data])
    ELSE UNCHANGED << output_file, backup_data >>

\* save_backup leaving out the newest entry
save_backup_drop_last ==
    /\ backup_file' = SubSeq(backup_data, 1, Len(backup_data) - 1)
    /\ backup_writes' = backup_writes + 1

\* save_backup
save_backup ==
    /\ backup_file' = backup_data
    /\ backup_writes' = backup_writes + 1

\* result.count('\n')
CountNewlines(data) == IF data = << >> THEN 0 ELSE Len(data) - 1

\* process_batches_result going on to the next result only after a success
process_batches_result_await_success(n) ==
    /\ pc = "window"
    /\ next_task \notin BatchNums
    /\ \A m \in BatchNums : Resolved(m)
    /\ n = next_result
    /\ n \in BatchNums
    /\ results[n].kind = "text"
    /\ IF results[n].kind = "text" /\ Sufficient(results[n].data)
       THEN /\ save_results(results[n].data)
            /\ stats' = [stats EXCEPT
                   !.completed_batches = @ + 1,
                   !.total_leads_generated = @ + CountNewlines(results[n].data)]
            /\ reported' = [reported EXCEPT ![n] = "SUCCESS"]
       ELSE /\ reported' = [reported EXCEPT ![n] = "FAILURE"]
            /\ UNCHANGED << output_file, backup_data, stats >>
    /\ next_result' = n + 1
    /\ pc' = IF n + 1 \in BatchNums THEN "window" ELSE "progress"
    /\ UNCHANGED << startup_vars, pure_vars, segmenter_vars >>
    /\ UNCHANGED << config_vars, rotator_vars, key_sets, backup_file,
                    backup_writes, window_start, next_task, status, requests, issued_key,
                    results, summary >>

\* process_batches: one iteration of the loop over zip(batch_nums, results),
\* entered once gather has returned
process_batches_result(n) ==
    /\ pc = "window"
    /\ next_task \notin BatchNums
    /\ \A m \in BatchNums : Resolved(m)
    /\ n = next_result
    /\ n \in BatchNums
    /\ IF results[n].kind = "text" /\ Sufficient(results[n].data)
       THEN /\ save_results(results[n].data)
            /\ stats' = [stats EXCEPT
                   !.completed_batches = @ + 1,
                   !.total_leads_generated = @ + CountNewlines(results[n].data)]
            /\ reported' = [reported EXCEPT ![n] = "SUCCESS"]
       ELSE /\ reported' = [reported EXCEPT ![n] = "FAILURE"]
            /\ UNCHANGED << output_file, backup_data, stats >>
    /\ next_result' = n + 1
    /\ pc' = IF n + 1 \in BatchNums THEN "window" ELSE "progress"
    /\ UNCHANGED << startup_vars, pure_vars, segmenter_vars >>
    /\ UNCHANGED << config_vars, rotator_vars, key_sets, backup_file,
                    backup_writes, window_start, next_task, status, requests, issued_key,
                    results, summary >>

\* process_batches: progress update and periodic backup after a window,
\* then the next iteration of the loop over the windows
process_batches_progress ==
    /\ pc = "progress"
    /\ IF stats.completed_batches % backup_interval = 0
       THEN save_backup
       ELSE UNCHANGED << backup_file, backup_writes >>
    /\ window_start' = window_start + concurrency_level
    /\ next_task' = window_start + concurrency_level
    /\ next_result' = window_start + concurrency_level
    /\ pc' = IF window_start + concurrency_level <= num_batches
             THEN "window" ELSE "final"
    /\ UNCHANGED << startup_vars, pure_vars, segmenter_vars >>
    /\ UNCHANGED << config_vars, rotator_vars, key_sets, stats, backup_data,
                    output_file, status, requests, issued_key, results, reported, summary >>

\* process_batches_final skipped when the backup on disk is already up to date
process_batches_final_if_due ==
    /\ pc = "final"
    /\ IF backup_writes > 0 /\ backup_file = backup_data
       THEN UNCHANGED << backup_file, backup_writes >>
       ELSE save_backup
    /\ pc' = "stats"
    /\ UNCHANGED << startup_vars, pure_vars, segmenter_vars >>
    /\ UNCHANGED << config_vars, rotator_vars, key_sets, stats, backup_data,
                    output_file, window_start, next_task, next_result, status,
                    requests, issued_key, results, reported, summary >>

\* process_batches: final backup save
process_batches_final ==
    /\ pc = "final"
    /\ save_backup
    /\ pc' = "stats"
    /\ UNCHANGED << startup_vars, pure_vars, segmenter_vars >>
    /\ UNCHANGED << config_vars, rotator_vars, key_sets, stats, backup_data,
                    output_file, window_start, next_task, next_result, status,
                    requests, issued_key, results, reported, summary >>

\* _log_final_stats
log_final_stats ==
    /\ pc = "stats"
    /\ summary' = << [completed_batches |-> stats.completed_batches,
                      failed_batches |-> stats.failed_batches,
                      total_leads |-> stats.total_leads_generated,
                      duplicates_prevented |-> stats.duplicates_prevented,
                      unique_emails |-> Cardinality(generated_emails)] >>
    /\ pc' = "done"
    /\ UNCHANGED << startup_vars, pure_vars, segmenter_vars >>
    /\ UNCHANGED << config_vars, rotator_vars, key_sets, stats, backup_data,
                    output_file, backup_file, backup_writes, window_start,
                    next_task, next_result, status, requests, issued_key, results, reported >>

Next ==
    \/ process_batches_open
    \/ \E n \in Batches : generate_batch_start(n, TRUE)
    \/ \E n \in Batches, text \in Responses : generate_batch_return(n, text)
    \/ \E n \in Batches, counted \in BOOLEAN : generate_batch_raise(n, counted)
    \/ \E n \in Batches : process_batches_result(n)
    \/ process_batches_progress
    \/ process_batches_final
    \/ log_final_stats

Spec == Init /\ [][Next]_vars

\* every issued remote call resolves, by a return or by an exception
Resolves(n) ==
    \/ \E text \in Responses : generate_batch_return(n, text)
    \/ \E counted \in BOOLEAN : generate_batch_raise(n, counted)

\* the event loop runs every coroutine that is ready: process_batches and the
\* tasks it created take their next step, and each remote call resolves
Fairness ==
    /\ WF_vars(process_batches_open)
    /\ \A n \in 1..MaxBatches : WF_vars(n \in Batches /\ generate_batch_start(n, TRUE))
    /\ \A n \in 1..MaxBatches : WF_vars(n \in Batches /\ Resolves(n))
    /\ \A n \in 1..MaxBatches : WF_vars(n \in Batches /\ process_batches_result(n))
    /\ WF_vars(process_batches_progress)
    /\ WF_vars(process_batches_final)
    /\ WF_vars(log_final_stats)

\* the run of Spec under the scheduling of asyncio.run
LiveSpec == Init /\ [][Next]_vars /\ Fairness

\* a run whose first window is wider than the backup interval
InitWide ==
    /\ num_batches = MaxBatches + 1
    /\ concurrency_level = MaxConcurrency + 1
    /\ backup_interval = MaxBackupInterval
    /\ environ = SingleKeyEnv
    /\ api_keys = << Key(1) >>
    /\ Running
    /\ Constructed
    /\ NoCall
    /\ NotSegmenting

SpecWide == InitWide /\ [][Next]_vars

(***************************************************************************)
(* The rotator on its own: rotate_key, mark_key_error and increment_usage  *)
(* called in any order on a pool of 1..MaxKeys credentials.  A counter     *)
(* starts at 0 or shortly below its cap and advances only from shortly     *)
(* below its cap to one above it: a lower value takes every test of the    *)
(* class the way 0 does.                                                   *)
(***************************************************************************)
UsageStarts == {0, max_requests_per_key - 1}

ErrorStarts == {0, max_errors_per_key - 2}

InitRotator ==
    /\ num_batches = 1
    /\ concurrency_level = 1
    /\ backup_interval = 1
    /\ \E k \in 1..MaxKeys : api_keys = [i \in 1..k |-> Key(i)]
    /\ current_key_index = 0
    /\ key_usage_count \in [KeyIndices -> UsageStarts]
    /\ key_error_count \in [KeyIndices -> ErrorStarts]
    /\ environ = [GEMINI_API_KEY |-> Unset, GEMINI_API_KEYS |-> api_keys,
                  numbered |-> << >>]
    /\ Running
    /\ GeneratorConstructed
    /\ NoCall
    /\ NotSegmenting

generator_vars == << key_sets, stats, backup_data, output_file, backup_file,
                     backup_writes, pc, window_start, next_task, next_result,
                     status, requests, issued_key, results, reported, summary >>

\* a call of rotate_key()
call_rotate_key ==
    /\ \E draw \in BOOLEAN : SetRotator(rotate_key(Rotator, draw))
    /\ UNCHANGED << startup_vars, pure_vars, segmenter_vars >>
    /\ UNCHANGED << config_vars, generator_vars >>

\* a call of mark_key_error()
call_mark_key_error ==
    /\ key_error_count[current_key_index] >= max_errors_per_key - 2
    /\ key_error_count[current_key_index] <= max_errors_per_key
    /\ \E draw \in BOOLEAN : SetRotator(mark_key_error(Rotator, draw))
    /\ UNCHANGED << startup_vars, pure_vars, segmenter_vars >>
    /\ UNCHANGED << config_vars, generator_vars >>

\* a call of increment_usage()
call_increment_usage ==
    /\ key_usage_count[current_key_index] >= max_requests_per_key - 1
    /\ key_usage_count[current_key_index] <= max_requests_per_key
    /\ SetRotator(increment_usage(Rotator))
    /\ UNCHANGED << startup_vars, pure_vars, segmenter_vars >>
    /\ UNCHANGED << config_vars, generator_vars >>

NextRotator ==
    \/ call_rotate_key
    \/ call_mark_key_error
    \/ call_increment_usage

SpecRotator == InitRotator /\ [][NextRotator]_vars

(***************************************************************************)
(* _extract_domain on its own: called on a URL put together from at most   *)
(* MaxPieces pieces, and called again on what it returned.                 *)
(***************************************************************************)
UrlPieces ==
    { << "h", "t", "t", "p", ":", "/", "/" >>,
      << "h", "t", "t", "p", "s", ":", "/", "/" >>,
      << "w", "w", "w", "." >>,
      << "W", "W", "W", "." >>,
      << "x" >>, << ".", "c" >>, << "/" >>, << "?" >> }

RECURSIVE Urls(_)
Urls(k) ==
    IF k = 0 THEN {<< >>}
    ELSE Urls(k - 1) \cup {u \o q : u \in Urls(k - 1), q \in UrlPieces}

InitDomain ==
    /\ num_batches = 1
    /\ concurrency_level = 1
    /\ backup_interval = 1
    /\ environ = SingleKeyEnv
    /\ api_keys = << Key(1) >>
    /\ Running
    /\ Constructed
    /\ in_url \in Urls(MaxPieces)
    /\ out_domain = Unset
    /\ in_row = << >>
    /\ out_level = "unset"
    /\ NotSegmenting

\* domain = self._extract_domain(website)
call_extract_domain ==
    /\ out_domain = Unset
    /\ out_domain' = extract_domain(in_url)
    /\ UNCHANGED << in_url, in_row, out_level >>
    /\ UNCHANGED << config_vars, startup_vars, rotator_vars, generator_vars,
                    segmenter_vars >>

\* the returned domain becomes the argument of the next call
call_extract_domain_again ==
    /\ out_domain # Unset
    /\ out_domain # in_url
    /\ in_url' = out_domain
    /\ out_domain' = Unset
    /\ UNCHANGED << in_row, out_level >>
    /\ UNCHANGED << config_vars, startup_vars, rotator_vars, generator_vars,
                    segmenter_vars >>

NextDomain ==
    \/ call_extract_domain
    \/ call_extract_domain_again

SpecDomain == InitDomain /\ [][NextDomain]_vars

(***************************************************************************)
(* Startup: EnhancedAPIKeyRotator.__init__ on the credentials configured   *)
(* in the environment, then the run of one batch.  GEMINI_API_KEYS is the  *)
(* raw comma-separated string; numbered[i] is GEMINI_API_KEY_i.            *)
(***************************************************************************)
\* a credential one character too short
ShortKey == KeyPrefix \o [j \in 1..14 |-> "a"]

\* a credential of the right length with another prefix
WrongPrefixKey == [j \in 1..21 |-> "x"]

Padded(key) == << " " >> \o key \o << " " >>

Environs ==
    { [GEMINI_API_KEY |-> Unset, GEMINI_API_KEYS |-> Unset, numbered |-> << >>],
      [GEMINI_API_KEY |-> PlaceholderKey,
       GEMINI_API_KEYS |-> PlaceholderKey \o << ",", " ", "," >>,
       numbered |-> << Unset, PlaceholderKey >>],
      [GEMINI_API_KEY |-> ShortKey, GEMINI_API_KEYS |-> << >>,
       numbered |-> << WrongPrefixKey, << " " >> >>],
      SingleKeyEnv,
      [GEMINI_API_KEY |-> Padded(Key(1)),
       GEMINI_API_KEYS |-> Key(1) \o << "," >> \o Padded(Key(2)) \o << "," >> \o ShortKey,
       numbered |-> << >>],
      [GEMINI_API_KEY |-> Unset, GEMINI_API_KEYS |-> Unset,
       numbered |-> << Unset, Key(1), << >>, Key(1) >>],
      [GEMINI_API_KEY |-> << >>, GEMINI_API_KEYS |-> << "," >>,
       numbered |-> << Key(2), WrongPrefixKey, Key(1) >>] }

\* sys.exit(1) in EnhancedAPIKeyRotator.__init__, after the setup
\* instructions: LeadGenerator.__init__ never returns
Exited ==
    /\ stdout = << "print_setup_instructions" >>
    /\ exit_code = << 1 >>
    /\ current_key_index = 0
    /\ key_usage_count = << >>
    /\ key_error_count = << >>
    /\ GeneratorFields
    /\ pc = "exit"

InitStartup ==
    /\ num_batches = 1
    /\ concurrency_level = 1
    /\ backup_interval = 1
    /\ environ \in Environs
    /\ api_keys \in ListOf(load_api_keys(environ))
    /\ IF api_keys = << >> THEN Exited ELSE Running /\ Constructed
    /\ NoCall
    /\ NotSegmenting

SpecStartup == InitStartup /\ [][Next]_vars

(***************************************************************************)
(* LeadSegmenter.calculate_adoption_level on its own.  A row holds the     *)
(* cells the function reads, as text.  A number is << n >>, or << >> when  *)
(* pd.to_numeric(..., errors='coerce') yields NaN.  Follower counts are    *)
(* kept in thousandths.                                                    *)
(***************************************************************************)
Digits == << "0", "1", "2", "3", "4", "5", "6", "7", "8", "9" >>

IsDigit(c) == \E d \in 1..10 : Digits[d] = c

DigitValue(c) == (CHOOSE d \in 1..10 : Digits[d] = c) - 1

\* [\d.]
IsNumberChar(c) == IsDigit(c) \/ c = "."

\* c in s
Contains(s, c) == \E i \in 1..Len(s) : s[i] = c

\* the maximal runs of [\d.] characters of s, as pairs << first, last >>
NumberRuns(s) ==
    {r \in (1..Len(s)) \X (1..Len(s)) :
        /\ r[1] <= r[2]
        /\ \A i \in r[1]..r[2] : IsNumberChar(s[i])
        /\ (r[1] = 1 \/ ~IsNumberChar(s[r[1] - 1]))
        /\ (r[2] = Len(s) \/ ~IsNumberChar(s[r[2] + 1]))}

Leftmost(runs) == CHOOSE r \in runs : \A o \in runs : r[1] <= o[1]

\* re.search(r'([\d.]+)<unit>', s): group 1 of the leftmost match, << >>
\* standing for no match
SearchNumberBefore(s, unit) ==
    LET runs == {r \in NumberRuns(s) : r[2] < Len(s) /\ s[r[2] + 1] = unit}
    IN  IF runs = {} THEN << >>
        ELSE SubSeq(s, Leftmost(runs)[1], Leftmost(runs)[2])

\* re.search(r'[\d.]+', s)
SearchNumber(s) ==
    IF NumberRuns(s) = {} THEN << >>
    ELSE SubSeq(s, Leftmost(NumberRuns(s))[1], Leftmost(NumberRuns(s))[2])

\* float(t) raises ValueError
FloatRaises(t) ==
    \/ ~\E i \in 1..Len(t) : IsDigit(t[i])
    \/ Cardinality({i \in 1..Len(t) : t[i] = "."}) > 1

RECURSIVE DigitsValue(_)
DigitsValue(t) ==
    IF t = << >> THEN 0
    ELSE 10 * DigitsValue(SubSeq(t, 1, Len(t) - 1)) + DigitValue(t[Len(t)])

\* float(t) in thousandths, for t of digits and at most one '.'
FloatMilli(t) ==
    LET whole == BeforeFirst(t, ".")
        frac == SubSeq(t, Len(whole) + 2, Len(t))
        frac3 == SubSeq(frac \o << "0", "0", "0" >>, 1, 3)
    IN  1000 * DigitsValue(whole) + DigitsValue(frac3)

\* the parse of follower_count_estimate: << follower_count in thousandths >>,
\* or << >> when float raises
follower_count(cell) ==
    LET follower_str == Lower(cell)
        Scaled(t, factor) ==
            IF t = << >> THEN << 0 >>
            ELSE IF FloatRaises(t) THEN << >>
            ELSE << FloatMilli(t) * factor >>
    IN  IF Contains(follower_str, "k")
        THEN Scaled(SearchNumberBefore(follower_str, "k"), 1000)
        ELSE IF Contains(follower_str, "m")
        THEN Scaled(SearchNumberBefore(follower_str, "m"), 1000000)
        ELSE Scaled(SearchNumber(follower_str), 1)

\* pd.to_numeric(cell, errors='coerce') or 0 for a cell holding an integer
\* or a text that is no number: the integer, or NaN, which is truthy and
\* is not replaced by 0
Numeric(cell) ==
    IF cell # << >> /\ \A i \in 1..Len(cell) : IsDigit(cell[i])
    THEN << DigitsValue(cell) >>
    ELSE << >>

\* comparisons with a float that may be NaN
LessEq(v, k) == v # << >> /\ v[1] <= k

GreaterEq(v, k) == v # << >> /\ v[1] >= k

\* score_map.get(presence, 0)
score_map(presence) ==
    IF presence = << "n", "o", "n", "e" >> THEN 0
    ELSE IF presence = << "m", "i", "n", "i", "m", "a", "l" >> THEN 1
    ELSE IF presence = << "m", "o", "d", "e", "r", "a", "t", "e" >> THEN 2
    ELSE IF presence = << "s", "t", "r", "o", "n", "g" >> THEN 3
    ELSE 0

\* sum(platform_scores)
platform_sum(r) ==
    score_map(Lower(r.instagram_presence)) + score_map(Lower(r.tiktok_presence))
        + score_map(Lower(r.youtube_shorts_presence))

\* calculate_adoption_level without the opportunity test
calculate_adoption_level_any_opportunity(r) ==
    LET social_score == Numeric(r.current_social_presence_score)
        content_freq == Numeric(r.content_frequency_score)
        followers == follower_count(r.follower_count_estimate)
    IN  IF followers = << >> THEN "moderate_adopter"
        ELSE IF /\ LessEq(social_score, 3) /\ 2 * platform_sum(r) <= 3
                /\ LessEq(content_freq, 3) /\ followers[1] < 1000000
        THEN "non_adopter"
        ELSE IF /\ GreaterEq(social_score, 4) /\ 2 * platform_sum(r) >= 9
                /\ GreaterEq(content_freq, 6) /\ followers[1] >= 1000000
        THEN "high_volume_poor_results"
        ELSE "moderate_adopter"

\* LeadSegmenter.calculate_adoption_level; avg_platform_score <= 0.5 is
\* 2 * sum <= 3 and avg_platform_score >= 1.5 is 2 * sum >= 9
calculate_adoption_level(r) ==
    LET social_score == Numeric(r.current_social_presence_score)
        content_freq == Numeric(r.content_frequency_score)
        opportunity_score == Numeric(r.opportunity_score)
        followers == follower_count(r.follower_count_estimate)
    IN  IF followers = << >> THEN "moderate_adopter"
        ELSE IF /\ LessEq(social_score, 3) /\ 2 * platform_sum(r) <= 3
                /\ LessEq(content_freq, 3) /\ followers[1] < 1000000
        THEN "non_adopter"
        ELSE IF /\ GreaterEq(social_score, 4) /\ 2 * platform_sum(r) >= 9
                /\ GreaterEq(content_freq, 6) /\ followers[1] >= 1000000
                /\ GreaterEq(opportunity_score, 60)
        THEN "high_volume_poor_results"
        ELSE "moderate_adopter"

\* the three presence cells of a row
PlatformCells ==
    { << << "n", "o", "n", "e" >>, << "n", "o", "n", "e" >>, << "n", "o", "n", "e" >> >>,
      << << "n", "o", "n", "e" >>, << "M", "i", "n", "i", "m", "a", "l" >>, << "n", "a", "n" >> >>,
      << << "m", "i", "n", "i", "m", "a", "l" >>, << "m", "i", "n", "i", "m", "a", "l" >>, << "n", "o", "n", "e" >> >>,
      << << "m", "o", "d", "e", "r", "a", "t", "e" >>, << "m", "o", "d", "e", "r", "a", "t", "e" >>, << "n", "o", "n", "e" >> >>,
      << << "S", "T", "R", "O", "N", "G" >>, << "m", "o", "d", "e", "r", "a", "t", "e" >>, << "n", "o", "n", "e" >> >>,
      << << "s", "t", "r", "o", "n", "g" >>, << "s", "t", "r", "o", "n", "g" >>, << "s", "t", "r", "o", "n", "g" >> >> }

FollowerCells ==
    { << "0" >>, << "9", "9", "9" >>, << "1", "0", "0", "0" >>, << "0", ".", "9", "k" >>, << "1", "k" >>, << "1", ".", "5", "K" >>, << "1", "0", "k", "-", "5", "0", "k" >>, << "2", "M" >>,
      << "u", "n", "k", "n", "o", "w", "n" >>, << "1", ".", "2", ".", "3", "k" >> }

AdoptionRows ==
    [current_social_presence_score : {<< "3" >>, << "4" >>, << "n", "/", "a" >>},
     content_frequency_score : {<< "3" >>, << "5" >>, << "6" >>},
     opportunity_score : {<< "5", "9" >>, << "6", "0" >>},
     platforms : PlatformCells,
     follower_count_estimate : FollowerCells]

SeriesOf(a) ==
    [current_social_presence_score |-> a.current_social_presence_score,
     content_frequency_score |-> a.content_frequency_score,
     opportunity_score |-> a.opportunity_score,
     instagram_presence |-> a.platforms[1],
     tiktok_presence |-> a.platforms[2],
     youtube_shorts_presence |-> a.platforms[3],
     follower_count_estimate |-> a.follower_count_estimate]

InitAdoption ==
    /\ num_batches = 1
    /\ concurrency_level = 1
    /\ backup_interval = 1
    /\ environ = SingleKeyEnv
    /\ api_keys = << Key(1) >>
    /\ Running
    /\ Constructed
    /\ in_url = << >>
    /\ out_domain = Unset
    /\ \E a \in AdoptionRows : in_row = SeriesOf(a)
    /\ out_level = "unset"
    /\ NotSegmenting

\* df.apply(self.calculate_adoption_level, axis=1) on one row
call_calculate_adoption_level ==
    /\ out_level = "unset"
    /\ out_level' = calculate_adoption_level(in_row)
    /\ UNCHANGED << in_url, out_domain, in_row >>
    /\ UNCHANGED << config_vars, startup_vars, rotator_vars, generator_vars,
                    segmenter_vars >>

NextAdoption == call_calculate_adoption_level

SpecAdoption == InitAdoption /\ [][NextAdoption]_vars

(***************************************************************************)
(* LeadSegmenter.segment_leads on a readable master CSV of at most MaxRows *)
(* rows, pandas being installed.  A row is a record of its cells; NaN is a *)
(* missing cell.                                                           *)
(***************************************************************************)
NaN == << "NaN" >>

\* the fields of the Config dataclass
ConfigFields ==
    { "num_batches", "concurrency_level", "leads_per_batch", "api_delay",
      "backup_interval", "max_retries", "retry_delay", "min_opportunity_score",
      "duplicate_check_enabled", "email_validation_enabled", "timestamp",
      "output_file", "backup_file", "progress_file", "premium_leads_file",
      "standard_leads_file", "emerging_leads_file" }

IsLetter(c) == \E i \in 1..26 : UpperChars[i] = c \/ LowerChars[i] = c

\* [a-zA-Z0-9._%+-]
IsLocalChar(c) == IsLetter(c) \/ IsDigit(c) \/ c \in {".", "_", "%", "+", "-"}

\* [a-zA-Z0-9.-]
IsDomainChar(c) == IsLetter(c) \/ IsDigit(c) \/ c \in {".", "-"}

\* re.match(r'^[a-zA-Z0-9._%+-]+@[a-zA-Z0-9.-]+\.[a-zA-Z]{2,}', email)
validate_email(email) ==
    LET n == Len(email)
        k == Cardinality({i \in 1..n : \A j \in 1..i : IsLocalChar(email[j])})
    IN  /\ k >= 1
        /\ k + 1 <= n
        /\ email[k + 1] = "@"
        /\ \E p \in (k + 3)..(n - 2) :
               /\ \A i \in (k + 2)..(p - 1) : IsDomainChar(email[i])
               /\ email[p] = "."
               /\ IsLetter(email[p + 1])
               /\ IsLetter(email[p + 2])

\* df.dropna(subset=['name', 'email', 'current_social_presence_score'])
dropna(rows) ==
    SelectSeq(rows, LAMBDA r : /\ r.name # NaN
                               /\ r.email # NaN
                               /\ r.current_social_presence_score # NaN)

\* df[df['email_valid'] == True]
valid_emails(rows) == SelectSeq(rows, LAMBDA r : validate_email(r.email))

\* drop_duplicates keeping every row
drop_duplicates_none(rows) == rows

\* df.drop_duplicates(subset=['email'], keep='first')
RECURSIVE drop_duplicates(_)
drop_duplicates(rows) ==
    IF rows = << >> THEN << >>
    ELSE LET n == Len(rows)
             init == drop_duplicates(SubSeq(rows, 1, n - 1))
         IN  IF \E j \in 1..(n - 1) : rows[j].email = rows[n].email
             THEN init
             ELSE Append(init, rows[n])

\* df['adoption_level'] = df.apply(self.calculate_adoption_level, axis=1)
classify(rows) ==
    [i \in 1..Len(rows) |->
        ("adoption_level" :> calculate_adoption_level(rows[i])) @@ rows[i]]

\* the value a column contributes to the sort; NaN sorts last
SortValue(r, col) ==
    IF Numeric(r[col]) = << >> THEN -1 ELSE Numeric(r[col])[1]

\* r comes before o when sorting by the columns cols, descending
RECURSIVE SortsBefore(_, _, _)
SortsBefore(r, o, cols) ==
    /\ cols # << >>
    /\ \/ SortValue(r, Head(cols)) > SortValue(o, Head(cols))
       \/ /\ SortValue(r, Head(cols)) = SortValue(o, Head(cols))
          /\ SortsBefore(r, o, Tail(cols))

\* rows.sort_values(cols, ascending=False), rows of equal values keeping
\* their order
RECURSIVE sort_values(_, _)
sort_values(rows, cols) ==
    IF rows = << >> THEN << >>
    ELSE LET n == Len(rows)
             init == sort_values(SubSeq(rows, 1, n - 1), cols)
             k == Cardinality({i \in 1..Len(init) :
                                  ~SortsBefore(rows[n], init[i], cols)})
         IN  SubSeq(init, 1, k) \o << rows[n] >> \o SubSeq(init, k + 1, Len(init))

\* the three buckets of _create_segmented_files, in the order they are written
Buckets ==
    << [level |-> "non_adopter", file |-> "non_adopters_file",
        by |-> << "opportunity_score", "contact_likelihood" >>],
       [level |-> "moderate_adopter", file |-> "moderate_adopters_file",
        by |-> << "opportunity_score", "visual_content_suitability" >>],
       [level |-> "high_volume_poor_results",
        file |-> "high_volume_poor_results_file",
        by |-> << "opportunity_score" >>] >>

\* the number of buckets written before self.config.<file> raises
\* AttributeError; 3 when every file is a field of Config
BucketsWritten ==
    LET missing == {k \in 1..3 : Buckets[k].file \notin ConfigFields}
    IN  IF missing = {} THEN 3
        ELSE (CHOOSE k \in missing : \A m \in missing : k <= m) - 1

\* _create_segmented_files(df): the files it writes
create_segmented_files(rows) ==
    {<< Buckets[k].file,
        sort_values(SelectSeq(rows, LAMBDA r : r.adoption_level = Buckets[k].level),
                    Buckets[k].by) >> : k \in 1..BucketsWritten}

SegmentRow(name, email, social, presence, followers, content, opportunity) ==
    [name |-> name, email |-> email,
     current_social_presence_score |-> social,
     instagram_presence |-> presence,
     tiktok_presence |-> presence,
     youtube_shorts_presence |-> presence,
     follower_count_estimate |-> followers,
     content_frequency_score |-> content,
     visual_content_suitability |-> << "5" >>,
     opportunity_score |-> opportunity,
     contact_likelihood |-> << "7" >>]

\* a non-adopter, a high-volume lead, a moderate one, a row with an invalid
\* email, a row without a name, a row repeating the first email, and a row
\* whose email cell is a number
SegmentRows ==
    { SegmentRow(<< "a" >>, << "a", "@", "x", ".", "c", "o" >>, << "2" >>, << "n", "o", "n", "e" >>, << "9", "9", "9" >>, << "2" >>, << "7", "0" >>),
      SegmentRow(<< "b" >>, << "b", "@", "x", ".", "c", "o" >>, << "8" >>, << "s", "t", "r", "o", "n", "g" >>, << "5", "k" >>, << "7" >>, << "6", "0" >>),
      SegmentRow(<< "c" >>, << "c", "@", "x", ".", "c", "o" >>, << "5" >>, << "m", "o", "d", "e", "r", "a", "t", "e" >>, << "9", "9", "9" >>, << "5" >>, << "7", "0" >>),
      SegmentRow(<< "d" >>, << "n", "o", "t", "-", "a", "n", "-", "e", "m", "a", "i", "l" >>, << "2" >>, << "n", "o", "n", "e" >>, << "9", "9", "9" >>, << "2" >>, << "6", "0" >>),
      SegmentRow(NaN, << "a", "@", "x", ".", "c", "o" >>, << "2" >>, << "n", "o", "n", "e" >>, << "9", "9", "9" >>, << "2" >>, << "6", "0" >>),
      SegmentRow(<< "e" >>, << "a", "@", "x", ".", "c", "o" >>, << "8" >>, << "s", "t", "r", "o", "n", "g" >>, << "5", "k" >>, << "7" >>, << "7", "0" >>),
      SegmentRow(<< "f" >>, << "1", "2", "3" >>, << "2" >>, << "n", "o", "n", "e" >>, << "9", "9", "9" >>, << "2" >>, << "6", "0" >>) }

RECURSIVE RowLists(_)
RowLists(k) ==
    IF k = 0 THEN {<< >>}
    ELSE RowLists(k - 1)
             \cup {Append(rows, r) : rows \in RowLists(k - 1), r \in SegmentRows}

\* pd.read_csv gives the email column a numeric dtype: no cell of it is a
\* text
EmailColumnNumeric(rows) ==
    /\ rows # << >>
    /\ \A i \in 1..Len(rows) :
           \/ rows[i].email = NaN
           \/ \A j \in 1..Len(rows[i].email) : IsDigit(rows[i].email[j])

\* df['email'].apply(self.validate_email) raises TypeError: re.match is
\* given a number
ValidateRaises(rows) == EmailColumnNumeric(rows) /\ dropna(rows) # << >>

InitSegment ==
    /\ num_batches = 1
    /\ concurrency_level = 1
    /\ backup_interval = 1
    /\ environ = SingleKeyEnv
    /\ api_keys = << Key(1) >>
    /\ Running
    /\ Constructed
    /\ NoCall
    /\ csv_rows \in RowLists(MaxRows)
    /\ df = << >>
    /\ segment_files = {}
    /\ seg_pc = "read"
    /\ seg_log = << >>

\* df = pd.read_csv(self.config.output_file, encoding='utf-8'), with the
\* latin-1 fallback; readable is whether pandas can parse the file
segment_leads_read ==
    /\ seg_pc = "read"
    /\ \E readable \in BOOLEAN :
           IF readable
           THEN df' = csv_rows /\ seg_pc' = "clean" /\ seg_log' = seg_log
           ELSE df' = df /\ seg_pc' = "error" /\ seg_log' = << "ParserError" >>
    /\ UNCHANGED << csv_rows, segment_files >>
    /\ UNCHANGED << config_vars, startup_vars, rotator_vars, generator_vars,
                    pure_vars >>

\* data cleaning and removal of duplicates
segment_leads_clean ==
    /\ seg_pc = "clean"
    /\ IF ValidateRaises(df)
       THEN /\ df' = dropna(df)
            /\ seg_pc' = "error"
            /\ seg_log' = << "TypeError" >>
       ELSE /\ df' = drop_duplicates(valid_emails(dropna(df)))
            /\ seg_pc' = "classify"
            /\ seg_log' = seg_log
    /\ UNCHANGED << csv_rows, segment_files >>
    /\ UNCHANGED << config_vars, startup_vars, rotator_vars, generator_vars,
                    pure_vars >>

\* classification
segment_leads_classify ==
    /\ seg_pc = "classify"
    /\ df' = classify(df)
    /\ seg_pc' = "write"
    /\ UNCHANGED << csv_rows, segment_files, seg_log >>
    /\ UNCHANGED << config_vars, startup_vars, rotator_vars, generator_vars,
                    pure_vars >>

\* segment_leads_write rewriting the master file before the bucket files
segment_leads_write_master_first ==
    /\ seg_pc = "write"
    /\ csv_rows' = df
    /\ IF BucketsWritten = 3 /\ "output_file" \in ConfigFields
       THEN /\ segment_files' = create_segmented_files(df)
            /\ seg_pc' = "completed"
            /\ seg_log' = seg_log
       ELSE /\ segment_files' = create_segmented_files(df)
            /\ seg_pc' = "error"
            /\ seg_log' = << "AttributeError" >>
    /\ UNCHANGED df
    /\ UNCHANGED << config_vars, startup_vars, rotator_vars, generator_vars,
                    pure_vars >>

\* self._create_segmented_files(df), df.to_csv(self.config.output_file) and
\* the statistics; an exception on the way is caught and logged by the
\* except of segment_leads, which then returns
segment_leads_write ==
    /\ seg_pc = "write"
    /\ IF BucketsWritten = 3 /\ "output_file" \in ConfigFields
       THEN /\ segment_files' = create_segmented_files(df)
            /\ csv_rows' = df
            /\ seg_pc' = "completed"
            /\ seg_log' = seg_log
       ELSE /\ segment_files' = create_segmented_files(df)
            /\ csv_rows' = csv_rows
            /\ seg_pc' = "error"
            /\ seg_log' = << "AttributeError" >>
    /\ UNCHANGED df
    /\ UNCHANGED << config_vars, startup_vars, rotator_vars, generator_vars,
                    pure_vars >>

NextSegment ==
    \/ segment_leads_read
    \/ segment_leads_clean
    \/ segment_leads_classify
    \/ segment_leads_write

SpecSegment == InitSegment /\ [][NextSegment]_vars

(***************************************************************************)
(* A run of two batches over a pool of two credentials; the usage and      *)
(* error counts start anywhere a longer run can have brought them.         *)
(***************************************************************************)
InitKeys ==
    /\ num_batches = 2
    /\ concurrency_level \in 1..MaxConcurrency
    /\ backup_interval = 1
    /\ api_keys = << Key(1), Key(2) >>
    /\ current_key_index = 0
    /\ key_usage_count \in [KeyIndices -> UsageStarts]
    /\ key_error_count \in [KeyIndices -> ErrorStarts]
    /\ environ = [GEMINI_API_KEY |-> Unset, GEMINI_API_KEYS |-> api_keys,
                  numbered |-> << >>]
    /\ Running
    /\ GeneratorConstructed
    /\ NoCall
    /\ NotSegmenting

NextKeys ==
    \/ process_batches_open
    \/ \E n \in Batches, ok \in BOOLEAN : generate_batch_start(n, ok)
    \/ \E n \in Batches, text \in Responses : generate_batch_return(n, text)
    \/ \E n \in Batches, counted \in BOOLEAN : generate_batch_raise(n, counted)
    \/ \E n \in Batches : process_batches_result(n)
    \/ process_batches_progress
    \/ process_batches_final
    \/ log_final_stats

SpecKeys == InitKeys /\ [][NextKeys]_vars

(***************************************************************************)
(* Vocabulary of the properties.                                           *)
(***************************************************************************)
IsPrefix(s, t) == Len(s) <= Len(t) /\ SubSeq(t, 1, Len(s)) = s

Range(s) == {s[i] : i \in 1..Len(s)}

\* positions <<n, i>> of the records accepted by _parse_and_filter_batch
AcceptedAt ==
    UNION {{<< n, i >> : i \in 1..Len(results[n].data)} : n \in Batches}

RecordAt(p) == results[p[1]].data[p[2]]

\* the accepted records with their three identity keys
AcceptedKeys ==
    {[at |-> p, email |-> EmailKey(RecordAt(p)), name |-> NameKey(RecordAt(p)),
      domain |-> DomainKey(RecordAt(p))] : p \in AcceptedAt}

\* window (0-based) of batch n
WindowOf(n) == (n - 1) \div concurrency_level

\* the filtered texts of the batches counted as completed, in batch order
RECURSIVE CompletedTextsUpTo(_)
CompletedTextsUpTo(n) ==
    IF n = 0 THEN << >>
    ELSE CompletedTextsUpTo(n - 1)
         \o (IF reported[n] = "SUCCESS" THEN results[n].data ELSE << >>)

RECURSIVE BackupTextsUpTo(_)
BackupTextsUpTo(k) ==
    IF k = 0 THEN << >> ELSE BackupTextsUpTo(k - 1) \o backup_data[k].data

Completing(n) == status[n] = "requested" /\ status'[n] = "succeeded"

Failing(n) == status[n] = "requested" /\ status'[n] = "failed"

(***************************************************************************)
(* C1.  Uniqueness of the accepted records.                                *)
(***************************************************************************)
\* C1 as stated: any two distinct records accepted by
\* _parse_and_filter_batch, in the same or in different batches, differ in
\* their lowercased email, in their lowercased name and in their normalized
\* website domain, an empty website included.
C1_UniqueKeysEvenEmptyDomain ==
    \A x \in AcceptedKeys, y \in AcceptedKeys :
        x.at # y.at =>
            /\ x.email # y.email
            /\ x.name # y.name
            /\ x.domain # y.domain

\* C1 amended: any two distinct accepted records differ in their lowercased
\* email and in their lowercased name, and their normalized website domains
\* differ unless both are empty (an empty domain is never registered).
C1_UniqueKeys ==
    \A x \in AcceptedKeys, y \in AcceptedKeys :
        x.at # y.at =>
            /\ x.email # y.email
            /\ x.name # y.name
            /\ x.domain # y.domain \/ (x.domain = << >> /\ y.domain = << >>)

\* two batches of one window have both completed, records of both were
\* accepted, and a colliding record was dropped
C1_Witness ==
    \E a \in Batches, b \in Batches :
        /\ a # b
        /\ WindowOf(a) = WindowOf(b)
        /\ status[a] = "succeeded" /\ results[a].data # << >>
        /\ status[b] = "succeeded" /\ results[b].data # << >>
        /\ stats.duplicates_prevented > 0

(***************************************************************************)
(* C2.  Which records reach the master file.                               *)
(***************************************************************************)
\* the record lines of the master file (all lines after the header)
FileRecords == IF output_file = << >> THEN {} ELSE Range(Tail(output_file))

\* the records accepted in the batches whose result has been handled
HandledRecords ==
    UNION {Range(results[n].data) : n \in {m \in Batches : reported[m] # "none"}}

\* C2 as stated: a record line is in the master file if and only if it
\* passed the collision check; every record that passed the check and had
\* its keys registered is written once the result of its batch is handled.
C2_WrittenIffAccepted == FileRecords = HandledRecords

\* C2 amended: a record is accepted only if none of its three keys was
\* registered when its batch was evaluated, and an accepted record is
\* appended to the master file if and only if the filtered text of its
\* batch, stripped, is longer than 50 characters; the records accepted in a
\* shorter batch keep their keys registered and are never written.
C2_WrittenIffAcceptedAndSufficient ==
    /\ [](/\ FileRecords \subseteq HandledRecords
          /\ \A n \in Batches :
                reported[n] # "none" =>
                    \A i \in 1..Len(results[n].data) :
                        /\ results[n].data[i] \in FileRecords
                              <=> StripLen(results[n].data) > MinDataLen
                        /\ EmailKey(results[n].data[i]) \in generated_emails
                        /\ NameKey(results[n].data[i]) \in generated_names)
    /\ [][\A n \in Batches :
            Completing(n) =>
                \A i \in 1..Len(results'[n].data) :
                    /\ EmailKey(results'[n].data[i]) \notin generated_emails
                    /\ NameKey(results'[n].data[i]) \notin generated_names
                    /\ DomainKey(results'[n].data[i]) \notin generated_domains]_vars

\* the run has ended with one accepted batch written and one accepted
\* record left out because its batch was too short
C2_Witness ==
    /\ pc = "done"
    /\ \E n \in Batches : reported[n] = "SUCCESS"
    /\ \E n \in Batches :
          /\ reported[n] = "FAILURE"
          /\ results[n].data # << >>
          /\ Range(results[n].data) \cap FileRecords = {}

(***************************************************************************)
(* C3.  Concurrent batches with colliding records.                         *)
(***************************************************************************)
\* the lines of a response that are parsed as records
IsRecordLine(line) ==
    ~IsBlankLine(line) /\ ~IsHeaderLine(line) /\ Len(line.fields) >= 3

\* a key of the line is registered
HitsRegistered(line) ==
    \/ EmailKey(line) \in generated_emails
    \/ NameKey(line) \in generated_names
    \/ DomainKey(line) \in generated_domains

\* two lines share a key that gets registered
Collide(l1, l2) ==
    \/ EmailKey(l1) = EmailKey(l2)
    \/ NameKey(l1) = NameKey(l2)
    \/ DomainKey(l1) = DomainKey(l2) /\ DomainKey(l1) # << >>

\* C3: the check and the registration of a batch are one step taken when
\* its remote call completes: whatever its index, a record of the
\* completing batch is accepted exactly when it hits no key registered by
\* the batches that completed before and collides with no record accepted
\* earlier in its own response, so of two colliding records of concurrent
\* batches the one of the batch that completes first is the one accepted.
C3_FirstCompletionWins ==
    /\ [](\A p \in AcceptedAt, q \in AcceptedAt :
             p[1] # q[1] /\ WindowOf(p[1]) = WindowOf(q[1])
                 => ~Collide(RecordAt(p), RecordAt(q)))
    /\ [][\A n \in Batches, text \in Responses :
          (Completing(n) /\ generate_batch_return(n, text)) =>
              LET lines == StripText(text)
              IN  \A i \in 1..Len(lines) :
                      IsRecordLine(lines[i]) =>
                          ( lines[i] \in Range(results'[n].data)
                            <=> /\ ~HitsRegistered(lines[i])
                                /\ \A j \in 1..(i - 1) :
                                      lines[j] \in Range(results'[n].data)
                                          => ~Collide(lines[j], lines[i]) )]_vars

\* in a window of two, the batch issued second completed first and its
\* record was accepted; the batch issued first lost all its records to it
C3_Witness ==
    \E a \in Batches, b \in Batches :
        /\ a < b
        /\ WindowOf(a) = WindowOf(b)
        /\ \A n \in Batches \ {a, b} : status[n] = "pending"
        /\ status[b] = "succeeded" /\ LeadA \in Range(results[b].data)
        /\ status[a] = "succeeded" /\ results[a].data = << >>
        /\ stats.duplicates_prevented = 3
        /\ generated_names = {<< "a" >>}

(***************************************************************************)
(* C4.  Window barrier.                                                    *)
(***************************************************************************)
\* C4: the batches 1..num_batches fall into consecutive windows of
\* concurrency_level batches (the last may be smaller); each batch is
\* requested exactly once; no batch of a later window is requested before
\* every batch of the earlier windows has succeeded or failed; never more
\* than concurrency_level remote calls are in flight.
C4_WindowBarrier ==
    /\ \A n \in Batches :
          /\ requests[n] <= 1
          /\ requests[n] = 0 <=> status[n] = "pending"
    /\ pc = "done" => \A n \in Batches : requests[n] = 1
    /\ \A a \in Batches, b \in Batches :
          WindowOf(a) < WindowOf(b) /\ status[b] # "pending" => Resolved(a)
    /\ Cardinality(InFlight) <= concurrency_level
    /\ \A a \in InFlight, b \in InFlight : WindowOf(a) = WindowOf(b)
    /\ pc = "window" =>
          /\ window_start \in Batches
          /\ (window_start - 1) % concurrency_level = 0
          /\ \A n \in Batches :
                (status[n] # "pending" /\ reported[n] = "none")
                    => WindowOf(n) = WindowOf(window_start)

\* a batch of the second window is in flight after a window of two batches,
\* one of which failed, has resolved
C4_Witness ==
    /\ concurrency_level >= 2
    /\ \E n \in Batches : WindowOf(n) = 1 /\ status[n] = "requested"
    /\ \E a \in Batches : WindowOf(a) = 0 /\ status[a] = "failed"
    /\ \E a \in Batches : WindowOf(a) = 0 /\ status[a] = "succeeded"

(***************************************************************************)
(* C5.  A batch whose call or response processing raises.                  *)
(***************************************************************************)
\* C5: when generate_batch raises, failed_batches grows by exactly 1, no
\* identity key is registered, nothing of the batch reaches the master file
\* or the backup data, the batch is not requested again, and the remaining
\* batches of the run are still processed.
C5_FailedBatchDropped ==
    /\ [](/\ stats.failed_batches = Cardinality({n \in Batches : status[n] = "failed"})
          /\ \A n \in Batches :
                status[n] = "failed" =>
                    /\ requests[n] = 1
                    /\ results[n] = NoneResult
                    /\ reported[n] # "SUCCESS"
          /\ pc = "done" =>
                \A n \in Batches :
                    requests[n] = 1 /\ Resolved(n) /\ reported[n] # "none")
    /\ [][\A n \in Batches :
            /\ Failing(n) =>
                  /\ stats'.failed_batches = stats.failed_batches + 1
                  /\ UNCHANGED << key_sets, output_file, backup_data >>
            /\ (status[n] = "failed" /\ reported'[n] # reported[n]) =>
                  UNCHANGED << key_sets, output_file, backup_data, stats >>]_vars

\* the run has ended; the first batch failed and a later one was saved
C5_Witness ==
    /\ pc = "done"
    /\ status[1] = "failed"
    /\ \E n \in Batches : n > 1 /\ reported[n] = "SUCCESS"

(***************************************************************************)
(* C6.  Accounting of the batches at the end of process_batches.           *)
(***************************************************************************)
\* C6: at the end of process_batches every batch is counted in exactly one
\* of completed_batches and failed_batches, so that their sum is
\* num_batches: failed_batches counts the batches that raised and those
\* whose filtered text is under the threshold, completed_batches the others.
C6_EveryBatchCounted ==
    pc = "done" =>
        /\ stats.completed_batches + stats.failed_batches = num_batches
        /\ stats.completed_batches
              = Cardinality({n \in Batches : reported[n] = "SUCCESS"})
        /\ stats.failed_batches
              = Cardinality({n \in Batches : reported[n] = "FAILURE"})

(***************************************************************************)
(* C7.  Content of the master CSV.                                         *)
(***************************************************************************)
\* C7: once opened, the master CSV is the header, written once as its
\* first line, followed by exactly the filtered texts of the batches
\* counted as completed so far, nothing of a failed batch; the file only
\* grows by appends.
C7_MasterFileContent ==
    /\ [](pc # "open" =>
             /\ output_file = << HeaderLine >> \o CompletedTextsUpTo(num_batches)
             /\ HeaderLine \notin Range(Tail(output_file))
             /\ stats.completed_batches
                   = Cardinality({n \in Batches : reported[n] = "SUCCESS"})
             /\ \A n \in Batches : reported[n] = "SUCCESS" => status[n] = "succeeded")
    /\ [][IsPrefix(output_file, output_file')]_vars

\* in mid-run the file holds the header and the text of a completed batch,
\* a batch has failed and a batch is still pending
C7_Witness ==
    /\ Len(output_file) > 1
    /\ \E n \in Batches : status[n] = "failed" /\ reported[n] = "FAILURE"
    /\ \E n \in Batches : status[n] = "pending"

(***************************************************************************)
(* C8.  Periodic backup.                                                   *)
(***************************************************************************)
\* a task of the current window has started and none of the results of
\* the window has been handled yet
WindowStarted ==
    pc = "window" /\ next_task > window_start /\ next_result = window_start

\* C8: for every positive multiple m of backup_interval that
\* completed_batches has reached, a backup snapshot taken after the counter
\* reached m (one of at least m entries) has been written before the next
\* window starts.
C8_BackupAtEveryInterval ==
    WindowStarted =>
        \A m \in 1..stats.completed_batches :
            m % backup_interval = 0 =>
                backup_writes > 0 /\ Len(backup_file) >= m

(***************************************************************************)
(* C9.  Final backup and summary.                                          *)
(***************************************************************************)
\* C9: after the last window process_batches writes one final backup, and
\* only then logs the summary, whatever the number of failed batches,
\* whether or not a periodic backup was just written and whether or not any
\* batch succeeded.
C9_FinalBackupThenSummary ==
    /\ [](/\ pc \in {"stats", "done"} =>
                backup_writes >= 1 /\ backup_file = backup_data
          /\ pc = "final" => \A n \in Batches : reported[n] # "none"
          /\ summary # << >> <=> pc = "done")
    /\ [][/\ (pc = "progress" /\ window_start + concurrency_level > num_batches)
                => pc' = "final"
          /\ pc = "final" =>
                /\ pc' = "stats"
                /\ backup_writes' = backup_writes + 1
                /\ backup_file' = backup_data
                /\ summary' = << >>
          /\ pc' = "stats" => pc = "final"
          /\ summary' # summary =>
                pc = "stats" /\ UNCHANGED << backup_file, backup_writes >>]_vars

\* the run has ended without a completed batch: the periodic backup of the
\* last window and the final backup were both written
C9_Witness ==
    /\ pc = "done"
    /\ stats.completed_batches = 0
    /\ stats.failed_batches > 0
    /\ backup_writes >= 2
    /\ summary # << >>

(***************************************************************************)
(* C10.  Backup entries.                                                   *)
(***************************************************************************)
\* the batches counted as completed, in batch order
RECURSIVE CompletedUpTo(_)
CompletedUpTo(n) ==
    IF n = 0 THEN << >>
    ELSE IF reported[n] = "SUCCESS" THEN Append(CompletedUpTo(n - 1), n)
    ELSE CompletedUpTo(n - 1)

\* C10: the backup data has as many entries as completed_batches; the k-th
\* entry has a non-empty timestamp and the filtered text appended to the
\* master file for the k-th completed batch; every backup written by
\* save_backup holds exactly the entries of the batches completed so far.
C10_BackupEntries ==
    /\ [](/\ Len(backup_data) = stats.completed_batches
          /\ CompletedUpTo(num_batches) \in Seq(Batches)
          /\ Len(CompletedUpTo(num_batches)) = Len(backup_data)
          /\ \A k \in 1..Len(backup_data) :
                /\ backup_data[k].timestamp # << >>
                /\ backup_data[k].data = results[CompletedUpTo(num_batches)[k]].data
          /\ pc # "open" =>
                BackupTextsUpTo(Len(backup_data)) = Tail(output_file)
          /\ IsPrefix(backup_file, backup_data))
    /\ [][backup_writes' # backup_writes =>
             /\ backup_file' = backup_data'
             /\ Len(backup_file') = stats'.completed_batches]_vars

\* a backup of two entries is on disk while a third batch was not saved
C10_Witness ==
    /\ backup_writes > 0
    /\ Len(backup_file) = 2
    /\ \E n \in Batches : reported[n] = "FAILURE"

(***************************************************************************)
(* Properties of the rotator (SpecRotator).                                *)
(***************************************************************************)
\* a step that is a call of rotate_key() whose random draw came out as draw
RotateStep(draw) ==
    /\ SetRotator(rotate_key(Rotator, draw))
    /\ UNCHANGED << startup_vars, pure_vars, segmenter_vars >>
    /\ UNCHANGED << config_vars, generator_vars >>

\* a step that is a call of mark_key_error() on the active credential
MarkStep(draw) ==
    /\ key_error_count[current_key_index] >= max_errors_per_key - 2
    /\ key_error_count[current_key_index] <= max_errors_per_key
    /\ SetRotator(mark_key_error(Rotator, draw))
    /\ UNCHANGED << startup_vars, pure_vars, segmenter_vars >>
    /\ UNCHANGED << config_vars, generator_vars >>

BelowErrorCap(k) == key_error_count[k] < max_errors_per_key

\* the first credential after idx, going forward circularly and ending with
\* idx itself, whose error count is below the cap; idx if there is none
FirstHealthyAfter(idx) ==
    LET n == Len(api_keys)
        ds == {d \in 1..n : BelowErrorCap((idx + d) % n)}
    IN  IF ds = {} THEN idx
        ELSE (idx + (CHOOSE d \in ds : \A e \in ds : d <= e)) % n

\* C11: the credential rotate_key returns never has an error count at or
\* above max_errors_per_key while another credential of the pool is below
\* that cap, and with a single credential rotate_key returns that credential
\* whatever its usage and error counts are.
C11_RotateReturnsHealthy ==
    [][\A draw \in BOOLEAN : RotateStep(draw) =>
          /\ (\E k \in KeyIndices : k # current_key_index' /\ BelowErrorCap(k))
                => key_error_count'[current_key_index'] < max_errors_per_key
          /\ Len(api_keys) = 1
                => /\ current_key_index' = 0
                   /\ api_keys[current_key_index' + 1] = api_keys[1]]_vars

\* two credentials reached their error cap one after the other and the
\* rotator stands on the third, which is below the cap
C11_Witness ==
    /\ Len(api_keys) = 3
    /\ key_error_count[0] >= max_errors_per_key
    /\ key_error_count[1] >= max_errors_per_key
    /\ key_error_count[2] < max_errors_per_key
    /\ current_key_index = 2

\* C12: rotate_key leaves the active index alone when the usage and error
\* counts of the active credential are below their caps and the random draw
\* does not fire; otherwise the new active credential is the first one in
\* circular forward order after the current index whose error count is below
\* the cap, and the index is unchanged if no credential qualifies.
C12_RotateContract ==
    [][\A draw \in BOOLEAN : RotateStep(draw) =>
          IF /\ key_usage_count[current_key_index] < max_requests_per_key
             /\ key_error_count[current_key_index] < max_errors_per_key
             /\ ~draw
          THEN current_key_index' = current_key_index
          ELSE current_key_index' = FirstHealthyAfter(current_key_index)]_vars

\* the first credential reached its usage cap, the second its error cap, and
\* the rotator went from the first past the second to the third
C12_Witness ==
    /\ Len(api_keys) = 3
    /\ key_usage_count[0] = max_requests_per_key
    /\ key_error_count[0] < max_errors_per_key
    /\ key_error_count[1] = max_errors_per_key
    /\ key_error_count[2] < max_errors_per_key
    /\ current_key_index = 2

\* C13: mark_key_error adds exactly 1 to the error count of the active
\* credential and changes no other counter; when the count reaches
\* max_errors_per_key and another credential is below the cap, the active
\* credential afterwards is a different one below the cap; while the count
\* stays below the cap the active index does not change.
C13_MarkKeyError ==
    [][\A draw \in BOOLEAN : MarkStep(draw) =>
          LET idx == current_key_index
          IN  /\ key_error_count'[idx] = key_error_count[idx] + 1
              /\ \A k \in KeyIndices \ {idx} :
                     key_error_count'[k] = key_error_count[k]
              /\ key_usage_count' = key_usage_count
              /\ (/\ key_error_count'[idx] = max_errors_per_key
                  /\ \E k \in KeyIndices \ {idx} : BelowErrorCap(k))
                    => /\ current_key_index' # idx
                       /\ key_error_count'[current_key_index'] < max_errors_per_key
              /\ key_error_count'[idx] < max_errors_per_key
                    => current_key_index' = idx]_vars

\* the first credential has just reached its error cap and the rotator left it
C13_Witness ==
    /\ Len(api_keys) >= 2
    /\ key_error_count[0] = max_errors_per_key
    /\ current_key_index # 0
    /\ key_error_count[current_key_index] < max_errors_per_key

(***************************************************************************)
(* C14, C15.  _parse_and_filter_batch on one batch.                        *)
(***************************************************************************)
\* the lines at the positions K, in their order
RECURSIVE LinesAt(_, _, _)
LinesAt(lines, K, k) ==
    IF k > Len(lines) THEN << >>
    ELSE IF k \in K THEN << lines[k] >> \o LinesAt(lines, K, k + 1)
    ELSE LinesAt(lines, K, k + 1)

RecordPositions(lines) == {i \in 1..Len(lines) : IsRecordLine(lines[i])}

\* two lines share one of their three keys
ShareKey(l1, l2) ==
    \/ EmailKey(l1) = EmailKey(l2)
    \/ NameKey(l1) = NameKey(l2)
    \/ DomainKey(l1) = DomainKey(l2)

\* K is the set of kept positions when every kept line registers all three
\* of its keys
KeptRegisteringAll(K, lines) ==
    \A i \in 1..Len(lines) :
        i \in K <=> /\ IsRecordLine(lines[i])
                    /\ ~HitsRegistered(lines[i])
                    /\ \A j \in K : j < i => ~ShareKey(lines[j], lines[i])

\* K is the set of kept positions when a kept line registers its email, its
\* name and, if it is not empty, its domain
KeptRegisteringNonEmpty(K, lines) ==
    \A i \in 1..Len(lines) :
        i \in K <=> /\ IsRecordLine(lines[i])
                    /\ ~HitsRegistered(lines[i])
                    /\ \A j \in K : j < i => ~Collide(lines[j], lines[i])

\* C14 as stated: the lines are taken in order; a well-formed line with a
\* key registered by an earlier batch or an earlier line of its batch is
\* dropped and counted as one duplicate, every other well-formed line is
\* kept and has all three of its keys registered; the result is the kept
\* lines in order and duplicates_prevented grows by the number of dropped
\* duplicates.
C14_AllThreeKeysRegistered ==
    [][\A n \in Batches, text \in Responses :
          (Completing(n) /\ generate_batch_return(n, text)) =>
              LET lines == StripText(text)
              IN  \E K \in SUBSET RecordPositions(lines) :
                      /\ KeptRegisteringAll(K, lines)
                      /\ results'[n].data = LinesAt(lines, K, 1)
                      /\ stats'.duplicates_prevented = stats.duplicates_prevented
                             + Cardinality(RecordPositions(lines) \ K)
                      /\ generated_emails' = generated_emails
                             \cup {EmailKey(lines[i]) : i \in K}
                      /\ generated_names' = generated_names
                             \cup {NameKey(lines[i]) : i \in K}
                      /\ generated_domains' = generated_domains
                             \cup {DomainKey(lines[i]) : i \in K}]_vars

\* C14: the lines are taken in order; a well-formed line with a key
\* registered by an earlier batch or an earlier line of its batch is dropped
\* and counted as one duplicate, every other well-formed line is kept and
\* has its email, its name and, unless it is empty, its domain registered
\* (an empty domain is never registered and never makes a duplicate); the
\* result is the kept lines in order and duplicates_prevented grows by the
\* number of dropped duplicates.
C14_KeysRegisteredUnlessEmptyDomain ==
    [][\A n \in Batches, text \in Responses :
          (Completing(n) /\ generate_batch_return(n, text)) =>
              LET lines == StripText(text)
              IN  \E K \in SUBSET RecordPositions(lines) :
                      /\ KeptRegisteringNonEmpty(K, lines)
                      /\ results'[n].data = LinesAt(lines, K, 1)
                      /\ stats'.duplicates_prevented = stats.duplicates_prevented
                             + Cardinality(RecordPositions(lines) \ K)
                      /\ generated_emails' = generated_emails
                             \cup {EmailKey(lines[i]) : i \in K}
                      /\ generated_names' = generated_names
                             \cup {NameKey(lines[i]) : i \in K}
                      /\ generated_domains' = generated_domains
                             \cup ({DomainKey(lines[i]) : i \in K} \ {<< >>})]_vars

\* a batch had both of its records kept, neither with a website; a later
\* batch held a line repeating a name of the first and a fresh line: only
\* the fresh line came out, one duplicate was counted, and the only domain
\* registered is the one of the fresh line
C14_Witness ==
    \E a \in Batches, b \in Batches :
        /\ results[a] = TextResult(<< LeadB, LeadC >>)
        /\ results[b] = TextResult(<< LeadD >>)
        /\ stats.duplicates_prevented = 1
        /\ generated_domains = {<< "s", ".", "c" >>}

\* C15: blank lines, header lines and lines of fewer than three fields are
\* dropped without being counted as duplicates and without adding a key to
\* the identity sets, and the lines after them are still processed: every
\* kept line is a record line, the sets gain keys of record lines only, the
\* duplicate count grows by the number of record lines that were not kept,
\* and every record line of the batch has a registered key afterwards.
C15_MalformedLinesDropped ==
    [][\A n \in Batches, text \in Responses :
          (Completing(n) /\ generate_batch_return(n, text)) =>
              LET lines == StripText(text)
                  recs == {lines[i] : i \in RecordPositions(lines)}
              IN  /\ results'[n].kind = "text"
                  /\ Range(results'[n].data) \subseteq recs
                  /\ generated_emails' \ generated_emails
                         \subseteq {EmailKey(l) : l \in recs}
                  /\ generated_names' \ generated_names
                         \subseteq {NameKey(l) : l \in recs}
                  /\ generated_domains' \ generated_domains
                         \subseteq {DomainKey(l) : l \in recs}
                  /\ stats'.duplicates_prevented = stats.duplicates_prevented
                         + Cardinality(RecordPositions(lines))
                         - Len(results'[n].data)
                  /\ \A l \in recs :
                         \/ EmailKey(l) \in generated_emails'
                         \/ NameKey(l) \in generated_names'
                         \/ DomainKey(l) \in generated_domains']_vars

\* the first batch to complete held a blank line, a header line and a line
\* of two fields among two fresh records: both records were kept, nothing
\* was counted as a duplicate and no key of the other lines was registered
C15_Witness ==
    \E n \in Batches :
        /\ results[n] = TextResult(<< LeadB, LeadC >>)
        /\ stats.duplicates_prevented = 0
        /\ generated_names = {<< "a" >>, << "c" >>}
        /\ generated_emails = {<< "b", "@", "x" >>, << "a", "@", "x" >>}
        /\ generated_domains = {}

(***************************************************************************)
(* C16.  _extract_domain (SpecDomain).                                     *)
(***************************************************************************)
\* C16: _extract_domain is idempotent, and what it returns has no http or
\* https protocol prefix, no leading 'www.' and no '/' or '?' character.
C16_ExtractDomainIdempotent ==
    out_domain # Unset =>
        /\ extract_domain(out_domain) = out_domain
        /\ ~StartsWith(out_domain, << "h", "t", "t", "p", ":", "/", "/" >>)
        /\ ~StartsWith(out_domain, << "h", "t", "t", "p", "s", ":", "/", "/" >>)
        /\ ~StartsWith(out_domain, << "w", "w", "w", "." >>)
        /\ \A i \in 1..Len(out_domain) : out_domain[i] \notin {"/", "?"}

(***************************************************************************)
(* C17.  The identity-key sets only grow.                                  *)
(***************************************************************************)
\* C17: each of the three identity-key sets is non-shrinking over a run: no
\* step, be it a failed batch, a batch dropped for insufficient data or a
\* backup write, removes a key from a set.
C17_KeySetsNeverShrink ==
    [][/\ generated_emails \subseteq generated_emails'
       /\ generated_names \subseteq generated_names'
       /\ generated_domains \subseteq generated_domains']_vars

\* keys are registered, and a batch has failed, another was dropped for
\* insufficient data with its keys registered, and a backup was written
C17_Witness ==
    /\ \E n \in Batches : status[n] = "failed" /\ reported[n] = "FAILURE"
    /\ \E n \in Batches :
          /\ status[n] = "succeeded"
          /\ reported[n] = "FAILURE"
          /\ \E i \in 1..Len(results[n].data) :
                 EmailKey(results[n].data[i]) \in generated_emails
    /\ backup_writes >= 1
    /\ generated_emails # {} /\ generated_names # {} /\ generated_domains # {}

(***************************************************************************)
(* C18.  No valid credential is a fatal startup error (SpecStartup).       *)
(***************************************************************************)
\* the values of the variables the rotator reads, blanks stripped
ConfiguredCredentials ==
    LET raw == (IF environ.GEMINI_API_KEY = Unset THEN {}
                ELSE {environ.GEMINI_API_KEY})
               \cup (IF environ.GEMINI_API_KEYS = Unset THEN {}
                     ELSE Range(Split(environ.GEMINI_API_KEYS, ",")))
               \cup (Range(environ.numbered) \ {Unset})
    IN  {Strip(c) : c \in raw}

PassesFormat(c) ==
    /\ Len(c) >= 21
    /\ SubSeq(c, 1, 6) = << "A", "I", "z", "a", "S", "y" >>

\* C18: if no configured credential passes the format validation (length
\* above 20 and the recognized prefix), the process exits with a non-zero
\* code after printing the setup instructions, no batch is ever requested
\* and no output or backup file is written; otherwise the pool holds only
\* format-valid credentials, none of them twice.
C18_NoCredentialIsFatal ==
    IF \A c \in ConfiguredCredentials : ~PassesFormat(c)
    THEN /\ exit_code # << >> /\ exit_code[1] # 0
         /\ stdout = << "print_setup_instructions" >>
         /\ \A n \in Batches : requests[n] = 0 /\ status[n] = "pending"
         /\ output_file = << >>
         /\ backup_file = << >>
         /\ backup_writes = 0
    ELSE /\ exit_code = << >>
         /\ api_keys # << >>
         /\ \A i \in 1..Len(api_keys) : PassesFormat(api_keys[i])
         /\ \A i, j \in 1..Len(api_keys) : api_keys[i] = api_keys[j] => i = j

\* credentials are configured, one of them a character too short, none
\* passes the validation, and the process has exited
C18_Witness ==
    /\ ShortKey \in ConfiguredCredentials
    /\ exit_code = << 1 >>
    /\ pc = "exit"
    /\ api_keys = << >>

(***************************************************************************)
(* C19.  calculate_adoption_level (SpecAdoption).                          *)
(***************************************************************************)
\* none / minimal / moderate / strong = 0 / 1 / 2 / 3, anything else 0
PresenceScore(cell) ==
    LET known == { << << "n", "o", "n", "e" >>, 0 >>, << << "m", "i", "n", "i", "m", "a", "l" >>, 1 >>,
                   << << "m", "o", "d", "e", "r", "a", "t", "e" >>, 2 >>, << << "s", "t", "r", "o", "n", "g" >>, 3 >> }
    IN  IF \E k \in known : k[1] = Lower(cell)
        THEN (CHOOSE k \in known : k[1] = Lower(cell))[2]
        ELSE 0

\* ten times the average platform score of the row
AveragePresenceTenths ==
    (10 * (PresenceScore(in_row.instagram_presence)
             + PresenceScore(in_row.tiktok_presence)
             + PresenceScore(in_row.youtube_shorts_presence))) \div 3

\* C19: calculate_adoption_level returns exactly one of three labels:
\* 'non_adopter' iff social presence <= 3, average platform score <= 0.5,
\* content frequency <= 3 and followers < 1000; otherwise
\* 'high_volume_poor_results' iff social presence >= 4, average platform
\* score >= 1.5, content frequency >= 6, followers >= 1000 and opportunity
\* score >= 60; otherwise 'moderate_adopter', which is also the result when
\* a value cannot be parsed.
C19_AdoptionLevel ==
    out_level # "unset" =>
        LET social == Numeric(in_row.current_social_presence_score)
            content == Numeric(in_row.content_frequency_score)
            opportunity == Numeric(in_row.opportunity_score)
            followers == follower_count(in_row.follower_count_estimate)
            NonAdopter ==
                /\ LessEq(social, 3)
                /\ AveragePresenceTenths <= 5
                /\ LessEq(content, 3)
                /\ followers[1] < 1000 * 1000
            HighVolume ==
                /\ GreaterEq(social, 4)
                /\ AveragePresenceTenths >= 15
                /\ GreaterEq(content, 6)
                /\ followers[1] >= 1000 * 1000
                /\ GreaterEq(opportunity, 60)
        IN  /\ out_level \in {"non_adopter", "high_volume_poor_results",
                             "moderate_adopter"}
            /\ followers = << >> => out_level = "moderate_adopter"
            /\ followers # << >> =>
                  /\ out_level = "non_adopter" <=> NonAdopter
                  /\ out_level = "high_volume_poor_results"
                        <=> ~NonAdopter /\ HighVolume
                  /\ out_level = "moderate_adopter"
                        <=> ~NonAdopter /\ ~HighVolume

\* a row at the lower edge of every test of the second class, its
\* follower count given in thousands, was classified high volume
C19_Witness ==
    /\ out_level = "high_volume_poor_results"
    /\ in_row.current_social_presence_score = << "4" >>
    /\ in_row.content_frequency_score = << "6" >>
    /\ in_row.opportunity_score = << "6", "0" >>
    /\ in_row.follower_count_estimate = << "1", "k" >>
    /\ in_row.instagram_presence = << "S", "T", "R", "O", "N", "G" >>

(***************************************************************************)
(* C20.  A segmentation pass (SpecSegment).                                *)
(***************************************************************************)
\* the rows written to the file of a Config field, << >> if none was written
WrittenTo(file) ==
    IF \E f \in segment_files : f[1] = file
    THEN (CHOOSE f \in segment_files : f[1] = file)[2]
    ELSE << >>

\* C20: a segmentation pass over a readable master CSV runs to completion:
\* when segment_leads returns, having read the file, it has written the three bucket files, every
\* cleaned row is in exactly the bucket of its adoption level, and the
\* master file is rewritten with the adoption_level column.
C20_SegmentationCompletes ==
    (seg_pc \in {"completed", "error"} /\ seg_log # << "ParserError" >>) =>
        /\ seg_pc = "completed"
        /\ \A k \in 1..3 : \E f \in segment_files : f[1] = Buckets[k].file
        /\ \A i \in 1..Len(df) : \A k \in 1..3 :
               df[i] \in Range(WrittenTo(Buckets[k].file))
                   <=> df[i].adoption_level = Buckets[k].level
        /\ csv_rows = df
        /\ \A i \in 1..Len(df) : "adoption_level" \in DOMAIN df[i]

(***************************************************************************)
(* C21, C22.  Failure and cleaning in segment_leads (SpecSegment).         *)
(***************************************************************************)
\* C21: an exception raised at any step of segment_leads aborts the pass:
\* it is caught and logged, the process goes on, segment_leads takes no
\* further step, and the master CSV is as the generation phase left it
\* unless the pass reached the final rewrite.
C21_FailureLeavesMasterIntact ==
    /\ [](seg_pc = "error" => seg_log # << >> /\ exit_code = << >>)
    /\ [][/\ seg_pc # "error"
          /\ seg_pc' = "error" => csv_rows' = csv_rows
          /\ csv_rows' # csv_rows => seg_pc' = "completed"]_vars

\* the pass was abandoned in the cleaning step, on a master CSV of two rows
C21_Witness ==
    /\ seg_pc = "error"
    /\ seg_log = << "TypeError" >>
    /\ Len(csv_rows) = 2
    /\ segment_files = {}

\* the rows of the frame that lack a field or fail the email validation
Unfit(rows, i) ==
    \/ rows[i].name = NaN
    \/ rows[i].email = NaN
    \/ rows[i].current_social_presence_score = NaN
    \/ ~validate_email(rows[i].email)

\* C22 as stated: every row that is missing name, email or the social
\* score, that fails the email validation, or whose email repeats an earlier
\* row is removed before any label is computed; no such row is classified
\* or written, and the record count is the input count minus those rows.
C22_RepeatsOfAnyEarlierRowDropped ==
    [][(seg_pc = "clean" /\ seg_pc' = "classify") =>
          LET K == {i \in 1..Len(df) :
                       /\ ~Unfit(df, i)
                       /\ \A j \in 1..(i - 1) : df[j].email # df[i].email}
          IN  /\ df' = LinesAt(df, K, 1)
              /\ Len(df') = Len(df) - Cardinality((1..Len(df)) \ K)]_vars

\* C22: every row that is missing name, email or the social score, that
\* fails the email validation, or whose email repeats an earlier row that
\* has all three fields and a valid email is removed before any label is
\* computed (a repeat of a row that was itself removed stays); the rows
\* that get a label, and the rows of every file written, are the remaining
\* rows, and the record count is the input count minus the removed rows.
C22_CleaningPrecedesClassification ==
    /\ [][(seg_pc = "clean" /\ seg_pc' = "classify") =>
            LET K == {i \in 1..Len(df) :
                         /\ ~Unfit(df, i)
                         /\ \A j \in 1..(i - 1) :
                                ~Unfit(df, j) => df[j].email # df[i].email}
            IN  /\ df' = LinesAt(df, K, 1)
                /\ Len(df') = Len(df) - Cardinality((1..Len(df)) \ K)
                /\ \A i \in 1..Len(df') : "adoption_level" \notin DOMAIN df'[i]]_vars
    /\ [][seg_pc = "classify" =>
            /\ Len(df') = Len(df)
            /\ \A i \in 1..Len(df) :
                   /\ "adoption_level" \in DOMAIN df'[i]
                   /\ \A c \in DOMAIN df[i] : df'[i][c] = df[i][c]]_vars
    /\ [](\A f \in segment_files : Range(f[2]) \subseteq Range(df))

\* the first row of the master CSV had no name and was removed; the second
\* row repeats its email, was kept and got its label
C22_Witness ==
    /\ seg_pc = "write"
    /\ Len(csv_rows) = 2
    /\ csv_rows[1].name = NaN
    /\ csv_rows[1].email = csv_rows[2].email
    /\ Len(df) = 1
    /\ df[1].name = << "e" >>
    /\ "adoption_level" \in DOMAIN df[1]

(***************************************************************************)
(* C23.  Termination of process_batches (LiveSpec).                        *)
(***************************************************************************)
\* C23: when every issued remote call resolves, process_batches finishes
\* every window, saves the final backup and logs the summary, whichever
\* batches fail.
C23_ProcessBatchesTerminates ==
    <>(/\ pc = "done"
       /\ \A n \in Batches : reported[n] \in {"SUCCESS", "FAILURE"}
       /\ backup_writes > 0
       /\ backup_file = backup_data
       /\ summary # << >>)

\* a finished run of two windows in which a batch failed and a later one
\* succeeded
C23_Witness ==
    /\ pc = "done"
    /\ num_batches = 3
    /\ concurrency_level = 2
    /\ reported[1] = "FAILURE"
    /\ reported[3] = "SUCCESS"
    /\ summary # << >>

(***************************************************************************)
(* C24.  Order of the writes (Spec).                                       *)
(***************************************************************************)
\* C24: the filtered texts reach the master CSV and the backup list in
\* strictly increasing batch order, within a window and across windows,
\* whatever the order in which the calls of a window completed: every write
\* appends, to both, the text of the batch whose result is handled, and
\* that batch has a higher index than every batch written or passed over
\* before it.
C24_WritesFollowIssuanceOrder ==
    /\ [](\A m \in Batches : reported[m] # "none" => m < next_result)
    /\ [][(pc # "open" /\ (output_file' # output_file
                              \/ backup_data' # backup_data)) =>
            \E n \in Batches :
                /\ n = next_result
                /\ next_result' = n + 1
                /\ reported[n] = "none" /\ reported'[n] = "SUCCESS"
                /\ \A m \in Batches : reported[m] # "none" => m < n
                /\ output_file' = output_file \o results[n].data
                /\ Len(backup_data') = Len(backup_data) + 1
                /\ SubSeq(backup_data', 1, Len(backup_data)) = backup_data
                /\ backup_data'[Len(backup_data')].data = results[n].data]_vars

\* the second batch of a window completed first and its records took the
\* name and the email of the first record of the first batch, which
\* completed later; the text of the first batch is nevertheless first in
\* the file and in the backup list
C24_Witness ==
    /\ concurrency_level = 2
    /\ results[1].data = << LeadD >>
    /\ results[2].data = << LeadB, LeadC >>
    /\ stats.duplicates_prevented = 1
    /\ output_file = << HeaderLine, LeadD, LeadB, LeadC >>
    /\ Len(backup_data) = 2
    /\ backup_data[1].data = << LeadD >>

(***************************************************************************)
(* C25, C26.  Usage counts over a pool of credentials (SpecKeys).          *)
(***************************************************************************)
\* the remote call of batch n comes back, with a text or with an exception
Resolving(n) == status[n] = "requested" /\ status'[n] # "requested"

\* C25: the usage count incremented when the remote call of a batch returns
\* is the count of the credential that was active when the request of that
\* batch was issued, whatever the other batches of the window did to the
\* rotation in between; the counts change in no other way, so each count
\* grows by the number of successful requests issued under its credential.
C25_UsageGoesToIssuingCredential ==
    [][/\ \A n \in Batches :
              Completing(n) =>
                  key_usage_count' =
                      [key_usage_count EXCEPT ![issued_key[n]] = @ + 1]
       /\ key_usage_count' # key_usage_count =>
              \E n \in Batches :
                  /\ Resolving(n)
                  /\ key_usage_count' =
                         [key_usage_count EXCEPT ![issued_key[n]] = @ + 1]]_vars

\* the credentials whose error count is below the cap
Healthy == {k \in KeyIndices : key_error_count[k] < max_errors_per_key}

\* C26: with at least two credentials below the error cap, no usage count
\* exceeds max_requests_per_key.
C26_UsageWithinCap ==
    Cardinality(Healthy) >= 2 =>
        \A k \in KeyIndices : key_usage_count[k] <= max_requests_per_key

(***************************************************************************)
(* C27.  The statistics of the summary (Spec).                             *)
(***************************************************************************)
\* C27: at the end of a run total_leads_generated is the number of lead
\* lines appended to the master CSV after the header, and the number of
\* tracked unique emails is the number of distinct emails among those
\* lines.
C27_SummaryCountsWrittenLeads ==
    pc = "done" =>
        /\ summary[1].total_leads = Len(Tail(output_file))
        /\ summary[1].unique_emails
              = Cardinality({EmailKey(line) : line \in Range(Tail(output_file))})

====
